---- MODULE Spec2Model ----
(***************************************************************************)
(* A model of the writable catalog engine of CernVM-FS (wavesoft/cvmfs):   *)
(* the catalog rows and their SQL statements (catalog_sql.cc), the         *)
(* directory entry record (dirent.h) and the writable catalog manager      *)
(* (catalog_mgr_rw.h).  The bodies of the manager's operations live in     *)
(* catalog_mgr_rw.cc, which is not among the files at hand: those          *)
(* operations are modelled from spec.md, section 4.3 and section 5, on top *)
(* of the SQL statements, which are modelled from their source.  On the    *)
(* reader side the module has the inode cache (lru_cache.h, inode_cache.cc),*)
(* the expansion of symlinks read out of a catalog, the way of one entry   *)
(* into a row and back, and the catalog database file with its handle      *)
(* (catalog_sql.cc), each with a specification of its own.                 *)
(*                                                                         *)
(* Paths are sequences of names: <<>> is "", <<"a","b">> is "/a/b".        *)
(* A 64-bit column value is a tuple of four 16-bit limbs, most significant *)
(* first, so that the wrap of 0 - 1 is the one of the machine word.        *)
(***************************************************************************)
EXTENDS Integers, Sequences, FiniteSets, TLC

VARIABLES
  catalogs,    \* root_prefix -> [state, rows, nested, revision]: the catalog tree
  sync_lock_,  \* the holder of WritableCatalogManager::sync_lock_, or NoThread
  pc,          \* worker -> "idle" | "locked": where the worker is in its mutation
  call,        \* worker -> the mutation the worker is executing, or NoCall
  result,      \* worker -> "none" | "ok" | "error" | "snapshotting": its last outcome
  opsDone,     \* number of mutations started so far
  commitPc,    \* "idle" | "upload" | "record" | "failed": where Commit is
  commitList,  \* the catalogs Commit still has to snapshot, in order
  artifact,    \* the finalized catalog file handed to the spooler, or NullHash
  uploads,     \* the spooler's log: sequence of [catalog, hash]
  manifest,    \* the manifest Commit returned last, or NoManifest
  commitsDone, \* number of Commit calls started so far
  hist         \* history of the running Commit, read by the properties only

\* The reader side: the inode cache of the client (lru_cache.h, inode_cache.cc).
VARIABLES
  lru,         \* the LruCache object, or NoLru before it is constructed
  lruRet,      \* the last call on the cache and what it returned
  lruHist      \* history of the calls, read by the properties only

writerVars == <<catalogs, sync_lock_, pc, call, result, opsDone, commitPc,
                commitList, artifact, uploads, manifest, commitsDone, hist>>

\* The reader side: the symlink of an entry read out of a catalog
\* (SqlLookup::GetDirent) in the environment of the reader's process.
VARIABLES
  symlink,     \* [chars]: the symlink column of the row, or NoSymlink
  environ,     \* the environment of the reader: variable name -> value
  symlink_     \* [chars]: symlink_ of the entry read out, or NoSymlink

\* One directory entry on its way into a row and out again
\* (SqlDirentWrite::BindDirentFields, SqlLookup::GetDirent), at full width.
VARIABLES
  dirent,      \* the DirectoryEntry bound to the write statement, or NoDirent
  columns,     \* the row the statement stored, or NoDirent
  dirent_      \* [entry, schema]: the entry read out of the row, or NoDirent

\* One catalog database file and the handle opened on it (catalog::Database).
VARIABLES
  file,        \* the catalog file: [rows, nested, properties], or NoFile
  db,          \* the Database object: [ready_, schema_version_, ...], or NoDb
  dbCall       \* the last call on the database and what it found, for the properties

\* One DirectoryEntry whose hardlinks field is set and read (dirent.h).
VARIABLES
  hardlinked   \* [entry, op, ...]: the entry and the call made on it, or NoDirent

\* The crawler's walk over a directory tree (RecursionEngine,
\* cvmfs_sync_recursion.h).
VARIABLES
  engine,      \* the RecursionEngine: [callbacks, recurse_, ignored_files_], or NoEngine
  walk         \* the last Recurse: [dir_path, env, trace], or NoWalk

lruVars == <<lru, lruRet, lruHist>>

symlinkVars == <<symlink, environ, symlink_>>

marshalVars == <<dirent, columns, dirent_>>

dbVars == <<file, db, dbCall>>

hardlinkVars == <<hardlinked>>

walkVars == <<engine, walk>>

readerVars == <<lruVars, symlinkVars, marshalVars, dbVars, hardlinkVars, walkVars>>

vars == <<writerVars, readerVars>>

----------------------------------------------------------------------------
(* Bounds of the model. *)

MaxOps == 2
MaxCommits == 1

Workers == {"w1", "w2"}
NoThread == "none"
NoCall == [op |-> "none"]
NoManifest == [none |-> TRUE]

----------------------------------------------------------------------------
(* Paths and path hashes. *)

Root == <<>>
DirPaths == {<<>>, <<"a">>, <<"a", "b">>, <<"c">>}
FilePaths == {<<"a", "x">>, <<"a", "y">>, <<"a", "b", "z">>}
AllPaths == DirPaths \cup FilePaths
HardlinkGroups == {{<<"a", "x">>, <<"a", "y">>}}

IsPrefix(p, q) == Len(p) <= Len(q) /\ SubSeq(q, 1, Len(p)) = p
GetParentPath(p) == SubSeq(p, 1, Len(p) - 1)
GetFileName(p) == p[Len(p)]

\* hash::Md5(hash::AsciiPtr(path)): injective on paths; hash::Md5() is the null digest.
Md5(p) == <<"md5", p>>
Md5Null == <<"md5null">>

----------------------------------------------------------------------------
(* 64-bit and 32-bit words as 16-bit limbs. *)

Limb == 2^16

U32(n) == <<n \div Limb, n % Limb>>
U64Zero == <<0, 0, 0, 0>>
U64(n) == <<0, 0>> \o U32(n)

\* w + d on 64 bits, two's complement, for a small d of either sign.
AddU64(w, d) ==
  LET s4 == w[4] + d
      s3 == w[3] + (s4 \div Limb)
      s2 == w[2] + (s3 \div Limb)
      s1 == w[1] + (s2 \div Limb)
  IN  <<s1 % Limb, s2 % Limb, s3 % Limb, s4 % Limb>>

AddU32(w, d) ==
  LET s2 == w[2] + d
      s1 == w[1] + (s2 \div Limb)
  IN  <<s1 % Limb, s2 % Limb>>

Low32(w) == <<w[3], w[4]>>
High32(w) == <<w[1], w[2]>>

\* Order of two 64-bit words read as signed integers (SQLite's INTEGER).
SignedKey(w) == IF w[1] >= Limb \div 2 THEN w[1] - Limb ELSE w[1]
SignedLess(v, w) ==
  \/ SignedKey(v) < SignedKey(w)
  \/ /\ SignedKey(v) = SignedKey(w)
     /\ \/ v[2] < w[2]
        \/ v[2] = w[2] /\ v[3] < w[3]
        \/ v[2] = w[2] /\ v[3] = w[3] /\ v[4] < w[4]

----------------------------------------------------------------------------
(* DirectoryEntry (dirent.h). *)

kInvalidInode == U64Zero

\* set_hardlinks with the link-count in the high half, the group id in the low.
set_hardlinks_Swapped(hardlink_group, linkcount) == linkcount \o hardlink_group

\* hardlinks_ = (uint64_t(hardlink_group) << 32) | linkcount
set_hardlinks(hardlink_group, linkcount) == hardlink_group \o linkcount

Hardlinks2Linkcount(hardlinks) ==
  IF hardlinks = U64Zero THEN U32(1) ELSE Low32(hardlinks)

Hardlinks2HardlinkGroup(hardlinks) == High32(hardlinks)

\* An entry as the crawler hands it over: no administrative flags set.
CrawlerEntry(name, mode, mtime) ==
  [name |-> name, mode |-> mode, mtime |-> mtime,
   inode_ |-> kInvalidInode, hardlinks_ |-> U64Zero,
   is_nested_catalog_root_ |-> FALSE,
   is_nested_catalog_mountpoint_ |-> FALSE]

IsDirectory(entry) == entry.mode = "dir"
IsLink(entry) == entry.mode = "lnk"

----------------------------------------------------------------------------
(* Rows and statements of one catalog database (catalog_sql.cc). *)

kFlagDir == "kFlagDir"
kFlagFile == "kFlagFile"
kFlagLink == "kFlagLink"
kFlagDirNestedRoot == "kFlagDirNestedRoot"
kFlagDirNestedMountpoint == "kFlagDirNestedMountpoint"

\* CreateDatabaseFlags without the branch for the root of a nested catalog.
CreateDatabaseFlags_NoRoot(entry) ==
  (IF entry.is_nested_catalog_mountpoint_ THEN {kFlagDirNestedMountpoint} ELSE {})
  \cup
  (IF IsDirectory(entry) THEN {kFlagDir}
   ELSE IF IsLink(entry) THEN {kFlagFile, kFlagLink}
   ELSE {kFlagFile})

\* CreateDatabaseFlags with the file branch taken for directories as well.
CreateDatabaseFlags_NoElse(entry) ==
  (IF entry.is_nested_catalog_root_ THEN {kFlagDirNestedRoot}
   ELSE IF entry.is_nested_catalog_mountpoint_ THEN {kFlagDirNestedMountpoint}
   ELSE {})
  \cup
  (IF IsDirectory(entry) THEN {kFlagDir} ELSE {})
  \cup
  (IF IsLink(entry) THEN {kFlagFile, kFlagLink} ELSE {kFlagFile})

CreateDatabaseFlags(entry) ==
  (IF entry.is_nested_catalog_root_ THEN {kFlagDirNestedRoot}
   ELSE IF entry.is_nested_catalog_mountpoint_ THEN {kFlagDirNestedMountpoint}
   ELSE {})
  \cup
  (IF IsDirectory(entry) THEN {kFlagDir}
   ELSE IF IsLink(entry) THEN {kFlagFile, kFlagLink}
   ELSE {kFlagFile})

\* The columns a DirectoryEntry is written to: the column named inode, which
\* readers take for the hardlinks field, is bound to entry.inode_.
BindDirentFields(entry) ==
  [inode |-> entry.inode_, mode |-> entry.mode, mtime |-> entry.mtime,
   flags |-> CreateDatabaseFlags(entry), name |-> entry.name]

MakeRow(path_hash, parent_hash, entry) ==
  [md5path |-> path_hash, parent |-> parent_hash] @@ BindDirentFields(entry)

HasRow(rows, path_hash) == \E r \in rows : r.md5path = path_hash
RowAt(rows, path_hash) == CHOOSE r \in rows : r.md5path = path_hash

\* A schema version, a double in the code, counted in tenths.
SchemaVersion(major, minor) == 10 * major + minor

\* Catalog::GetMangledInode (catalog.h): the inode the session assigns to a
\* row, from the row's identity and its hardlink group.
GetMangledInode(row_id, hardlink_group) ==
  [row_id |-> row_id, hardlink_group |-> hardlink_group]

\* GetDirent that leaves mtime_ as the constructor set it.
GetDirent_NoMtime(row, schema) ==
  LET hardlinks == row.inode
  IN  [name |-> row.name, mode |-> row.mode, mtime |-> 0,
       inode_ |-> GetMangledInode(row.md5path,
                    IF schema < SchemaVersion(2, 0) THEN U32(0)
                    ELSE Hardlinks2HardlinkGroup(hardlinks)),
       linkcount_ |-> IF schema < SchemaVersion(2, 0) THEN U32(1)
                      ELSE Hardlinks2Linkcount(hardlinks),
       is_nested_catalog_root_ |-> kFlagDirNestedRoot \in row.flags,
       is_nested_catalog_mountpoint_ |-> kFlagDirNestedMountpoint \in row.flags]

\* GetDirent that takes every catalog for one of schema 2.0.
GetDirent_AnySchema(row, schema) ==
  LET hardlinks == row.inode
  IN  [name |-> row.name, mode |-> row.mode, mtime |-> row.mtime,
       inode_ |-> GetMangledInode(row.md5path, Hardlinks2HardlinkGroup(hardlinks)),
       linkcount_ |-> Hardlinks2Linkcount(hardlinks),
       is_nested_catalog_root_ |-> kFlagDirNestedRoot \in row.flags,
       is_nested_catalog_mountpoint_ |-> kFlagDirNestedMountpoint \in row.flags]

\* SqlLookup::GetDirent: a row of a catalog of the given schema read out as a
\* DirectoryEntry, in the columns this model keeps in a row (size, content
\* hash and symlink are read by RetrieveAttributes and ReadSymlink below).
\* The link-count goes to the entry, the hardlink group into its inode.
GetDirent(row, schema) ==
  LET hardlinks == row.inode
  IN  [name |-> row.name, mode |-> row.mode, mtime |-> row.mtime,
       inode_ |-> GetMangledInode(row.md5path,
                    IF schema < SchemaVersion(2, 0) THEN U32(0)
                    ELSE Hardlinks2HardlinkGroup(hardlinks)),
       linkcount_ |-> IF schema < SchemaVersion(2, 0) THEN U32(1)
                      ELSE Hardlinks2Linkcount(hardlinks),
       is_nested_catalog_root_ |-> kFlagDirNestedRoot \in row.flags,
       is_nested_catalog_mountpoint_ |-> kFlagDirNestedMountpoint \in row.flags]

\* The insert statement as INSERT OR REPLACE.
SqlDirentInsert_Replace(rows, path_hash, parent_hash, entry) ==
  {r \in rows : r.md5path # path_hash} \cup {MakeRow(path_hash, parent_hash, entry)}

\* INSERT OR IGNORE INTO catalog ...
SqlDirentInsert(rows, path_hash, parent_hash, entry) ==
  IF HasRow(rows, path_hash) THEN rows
  ELSE rows \cup {MakeRow(path_hash, parent_hash, entry)}

\* UPDATE catalog SET hash, size, mode, mtime, flags, name, symlink, inode WHERE md5path = ...
SqlDirentUpdate(rows, path_hash, entry) ==
  {IF r.md5path = path_hash
   THEN [md5path |-> r.md5path, parent |-> r.parent] @@ BindDirentFields(entry)
   ELSE r : r \in rows}

\* DELETE FROM catalog WHERE md5path = ...
SqlDirentUnlink(rows, path_hash) == {r \in rows : r.md5path # path_hash}

\* The touch statement with the WHERE clause on the parent hash.
SqlDirentTouch_Parent(rows, path_hash, timestamp) ==
  {IF r.parent = path_hash \/ r.md5path = path_hash
   THEN [r EXCEPT !.mtime = timestamp] ELSE r : r \in rows}

\* UPDATE catalog SET mtime = :mtime WHERE md5path = ...
SqlDirentTouch(rows, path_hash, timestamp) ==
  {IF r.md5path = path_hash THEN [r EXCEPT !.mtime = timestamp] ELSE r : r \in rows}

\* SELECT ... FROM catalog WHERE parent = ...
SqlListing(rows, path_hash) == {r \in rows : r.parent = path_hash}

\* The link-count statement without the CASE that clears a group of two.
SqlIncLinkcount_NoClear(rows, path_hash, delta) ==
  IF ~HasRow(rows, path_hash) THEN rows
  ELSE LET selected == RowAt(rows, path_hash).inode
       IN  {IF r.inode = selected
            THEN [r EXCEPT !.inode = AddU64(r.inode, delta)]
            ELSE r : r \in rows}

\* UPDATE catalog SET inode = CASE (inode << 32) >> 32 WHEN 2 THEN 0
\*   ELSE inode+1*(:delta) END WHERE inode = (SELECT inode ... WHERE md5path = ...)
SqlIncLinkcount(rows, path_hash, delta) ==
  IF ~HasRow(rows, path_hash) THEN rows
  ELSE LET selected == RowAt(rows, path_hash).inode
       IN  {IF r.inode = selected
            THEN [r EXCEPT !.inode = IF Low32(r.inode) = U32(2) THEN U64Zero
                                     ELSE AddU64(r.inode, delta)]
            ELSE r : r \in rows}

\* SELECT max(inode) FROM catalog; GetMaxGroupId() is the result >> 32.
SqlMaxHardlinkGroup(rows) ==
  IF rows = {} THEN U32(0)
  ELSE High32((CHOOSE r \in rows : \A s \in rows : ~SignedLess(r.inode, s.inode)).inode)

\* No file at the path of the catalog.
NoFile == [none |-> TRUE]

\* A path as the string the crawler passes: "" for the root, "/a/b".
RECURSIVE PathString(_)
PathString(path) ==
  IF path = <<>> THEN "" ELSE "/" \o Head(path) \o PathString(Tail(path))

\* A TEXT value of properties read as an integer, the way SQLite converts it.
RetrieveInt(text) ==
  CASE text = "0" -> 0 [] text = "1" -> 1 [] text = "2" -> 2 [] text = "3" -> 3
    [] OTHER -> 0

\* The tables CREATE TABLE IF NOT EXISTS leaves: those of the file, or empty
\* ones in a new file.
CreateTables(found) ==
  IF found = NoFile THEN [rows |-> {}, nested |-> {}, properties |-> <<>>]
  ELSE found

\* Database::Create that replaces the revision of an existing file.
DatabaseCreate_ReplaceRevision(found, root_entry, root_path) ==
  LET tables == CreateTables(found)
      schema == ("schema" :> "2.0") @@ ("revision" :> "0") @@ tables.properties
  IN  [rows |-> SqlDirentInsert(tables.rows, Md5(root_path),
                                IF root_path = <<>> THEN Md5Null
                                ELSE Md5(GetParentPath(root_path)),
                                root_entry),
       nested |-> tables.nested,
       properties |-> IF root_path # <<>>
                      THEN ("root_prefix" :> PathString(root_path)) @@ schema
                      ELSE schema]

\* Database::Create on what is found at the path (NoFile: nothing), when every
\* statement succeeds: CREATE TABLE IF NOT EXISTS, INSERT OR IGNORE of
\* revision 0, INSERT OR REPLACE of schema 2.0, INSERT OR IGNORE of the row of
\* the root entry, INSERT OR REPLACE of root_prefix unless root_path is "".
DatabaseCreate(found, root_entry, root_path) ==
  LET tables == CreateTables(found)
      revision == tables.properties @@ ("revision" :> "0")
      schema == ("schema" :> "2.0") @@ revision
  IN  [rows |-> SqlDirentInsert(tables.rows, Md5(root_path),
                                IF root_path = <<>> THEN Md5Null
                                ELSE Md5(GetParentPath(root_path)),
                                root_entry),
       nested |-> tables.nested,
       properties |-> IF root_path # <<>>
                      THEN ("root_prefix" :> PathString(root_path)) @@ schema
                      ELSE schema]

----------------------------------------------------------------------------
(* The catalog tree of the manager. *)

NullHash == [null |-> TRUE]
NoCatalog == [state |-> "none", rows |-> {}, nested |-> {}, revision |-> 0]
Unmounted == [state |-> "unmounted", rows |-> {}, nested |-> {}, revision |-> 0]

IsMounted(cs, c) == cs[c].state \in {"clean", "dirty", "snapshotting"}

\* The upload spooler's answer for a finalized catalog file: its content hash.
ContentHash(cat) == [rows |-> cat.rows, nested |-> cat.nested, revision |-> cat.revision]

\* A catalog file loaded by its hash (LoadCatalog and the attach of the catalog).
Attach(hash) ==
  [state |-> "clean", rows |-> hash.rows, nested |-> hash.nested,
   revision |-> hash.revision]

NestedPaths(cat) == {n.path : n \in cat.nested}
NestedHash(cat, m) == (CHOOSE n \in cat.nested : n.path = m).sha1

\* The mounted children of catalog c in the in-memory tree.
GetChildren(cs, c) == {m \in NestedPaths(cs[c]) : IsMounted(cs, m)}

\* The catalog that holds the nested_catalogs row of catalog c, if any.
ParentsOf(cs, c) == {p \in DOMAIN cs : IsMounted(cs, p) /\ c \in NestedPaths(cs[p])}

\* The walk of FindCatalog from catalog c: the deepest catalog whose
\* root_prefix is a prefix of path, or the first catalog on the way that is
\* not mounted yet.
RECURSIVE WalkFrom(_, _, _)
WalkFrom(cs, c, path) ==
  LET next == {m \in NestedPaths(cs[c]) : IsPrefix(m, path)}
  IN  IF ~IsMounted(cs, c) \/ next = {} THEN c
      ELSE WalkFrom(cs, CHOOSE m \in next : \A k \in next : Len(m) <= Len(k), path)

FindCatalog(cs, path) == WalkFrom(cs, Root, path)

\* The rows of a catalog strictly below a directory, by recursive listing.
RECURSIVE RowsBelow(_, _)
RowsBelow(rows, path) ==
  LET listing == SqlListing(rows, Md5(path))
  IN  listing \cup UNION {RowsBelow(rows, Append(path, r.name)) : r \in listing}

----------------------------------------------------------------------------
(* The mutations of the writable manager, as functions of the catalog tree. *)
(* Each yields the new tree and whether the mutation succeeded; a mutation  *)
(* that fails leaves the tree as it was.                                    *)

\* The catalogs of the writer are made by Database::Create: schema 2.0.  An
\* entry the manager reads and writes back is bound with the hardlinks column
\* of its row in inode_, so that the row keeps its link-count and group.
WriterSchema == SchemaVersion(2, 0)

Done(cs) == [cs |-> cs, ok |-> TRUE]
Rejected(cs) == [cs |-> cs, ok |-> FALSE]

\* A mutation that failed with one of the error kinds the crawler is told.
Failed(cs, error) == [cs |-> cs, ok |-> FALSE, error |-> error]

\* A catalog that takes mutations in every mounted state.
AcceptsMutations_Mounted(cat) == cat.state \in {"clean", "dirty", "snapshotting"}

\* A catalog takes mutations while it is mounted and not being snapshotted.
AcceptsMutations(cat) == cat.state \in {"clean", "dirty"}

IsDirectoryRow(rows, path) ==
  HasRow(rows, Md5(path)) /\ kFlagDir \in RowAt(rows, Md5(path)).flags

WithRows(cs, c, rows) == [cs EXCEPT ![c].rows = rows, ![c].state = "dirty"]

\* AddFile and AddDirectory: route to the catalog of the parent directory and
\* insert the row.
AddEntry(cs, entry, path) ==
  LET parent_directory == GetParentPath(path)
      c == FindCatalog(cs, parent_directory)
      rows == cs[c].rows
  IN  IF ~AcceptsMutations(cs[c]) THEN Rejected(cs)
      ELSE IF ~IsDirectoryRow(rows, parent_directory) THEN Failed(cs, "NotFound")
      ELSE IF HasRow(rows, Md5(path)) THEN Failed(cs, "AlreadyExists")
      ELSE Done(WithRows(cs, c, SqlDirentInsert(rows, Md5(path),
                                                Md5(parent_directory), entry)))

\* RemoveFile: delete the row from the catalog that owns it.
RemoveFile(cs, path) ==
  LET c == FindCatalog(cs, GetParentPath(path))
      rows == cs[c].rows
  IN  IF ~AcceptsMutations(cs[c]) \/ ~HasRow(rows, Md5(path))
      THEN Rejected(cs)
      ELSE Done(WithRows(cs, c, SqlDirentUnlink(rows, Md5(path))))

\* RemoveDirectory: as RemoveFile; the directory must be empty where its
\* entries are listed.
RemoveDirectory(cs, path) ==
  LET c == FindCatalog(cs, GetParentPath(path))
      rows == cs[c].rows
      listed == FindCatalog(cs, path)
  IN  IF \/ ~AcceptsMutations(cs[c])
         \/ ~HasRow(rows, Md5(path))
         \/ SqlListing(cs[listed].rows, Md5(path)) # {}
      THEN Rejected(cs)
      ELSE Done(WithRows(cs, c, SqlDirentUnlink(rows, Md5(path))))

\* TouchEntry: update mtime only.
TouchEntry(cs, entry, path) ==
  LET c == FindCatalog(cs, GetParentPath(path))
      rows == cs[c].rows
  IN  IF ~AcceptsMutations(cs[c]) THEN Rejected(cs)
      ELSE IF ~HasRow(rows, Md5(path)) THEN Failed(cs, "NotFound")
      ELSE Done(WithRows(cs, c, SqlDirentTouch(rows, Md5(path), entry.mtime)))

\* The rows of a catalog after the entries of a hardlink group are inserted.
\* The rows are to carry the group id and the link-count; the column that
\* holds them is bound from inode_ (BindDirentFields), a field the manager
\* writes as a friend of DirectoryEntry, so the packed value goes there.
RECURSIVE InsertAll(_, _, _, _)
InsertAll(rows, paths, hardlinks, mtime) ==
  IF paths = {} THEN rows
  ELSE LET p == CHOOSE p \in paths : TRUE
           entry == [CrawlerEntry(GetFileName(p), "reg", mtime)
                       EXCEPT !.hardlinks_ = hardlinks, !.inode_ = hardlinks]
       IN  InsertAll(SqlDirentInsert(rows, Md5(p), Md5(GetParentPath(p)), entry),
                     paths \ {p}, hardlinks, mtime)

\* AddHardlinkGroup: a fresh group id (max-group-id + 1 in the owning
\* catalog) and link-count = len(entries) are set on every entry, and the
\* entries are inserted.
AddHardlinkGroup(cs, paths, parent_directory) ==
  LET c == FindCatalog(cs, parent_directory)
      rows == cs[c].rows
      new_group_id == AddU32(SqlMaxHardlinkGroup(rows), 1)
      hardlinks == set_hardlinks(new_group_id, U32(Cardinality(paths)))
  IN  IF \/ ~AcceptsMutations(cs[c])
         \/ ~IsDirectoryRow(rows, parent_directory)
         \/ \E p \in paths : HasRow(rows, Md5(p))
      THEN Rejected(cs)
      ELSE Done(WithRows(cs, c, InsertAll(rows, paths, hardlinks, 0)))

\* ShrinkHardlinkGroup: decrement the group's link-count, then remove the row.
ShrinkHardlinkGroup(cs, path) ==
  LET c == FindCatalog(cs, GetParentPath(path))
      rows == cs[c].rows
  IN  IF ~AcceptsMutations(cs[c]) \/ ~HasRow(rows, Md5(path))
      THEN Rejected(cs)
      ELSE Done(WithRows(cs, c,
                  SqlDirentUnlink(SqlIncLinkcount(rows, Md5(path), -1), Md5(path))))

\* CreateNestedCatalog: split the subtree below the mountpoint into a new
\* catalog rooted there.
CreateNestedCatalog(cs, mountpoint) ==
  LET c == FindCatalog(cs, mountpoint)
      rows == cs[c].rows
      old == RowAt(rows, Md5(mountpoint))
      below == RowsBelow(rows, mountpoint)
      moved == {n \in cs[c].nested : IsPrefix(mountpoint, n.path)}
      root_entry == [GetDirent(old, WriterSchema) EXCEPT
                       !.is_nested_catalog_root_ = TRUE, !.inode_ = old.inode]
      transition == [GetDirent(old, WriterSchema) EXCEPT
                       !.is_nested_catalog_mountpoint_ = TRUE, !.inode_ = old.inode]
      created == DatabaseCreate(NoFile, root_entry, mountpoint)
  IN  IF \/ ~AcceptsMutations(cs[c])
         \/ ~IsDirectoryRow(rows, mountpoint)
         \/ c = mountpoint
         \/ kFlagDirNestedMountpoint \in old.flags
         \/ kFlagDirNestedRoot \in old.flags
         \/ cs[mountpoint].state # "none"
      THEN Rejected(cs)
      ELSE Done([cs EXCEPT
             ![c] = [state |-> "dirty",
                     rows |-> SqlDirentUpdate(rows \ below, Md5(mountpoint), transition),
                     nested |-> (cs[c].nested \ moved)
                                \cup {[path |-> mountpoint, sha1 |-> NullHash]},
                     revision |-> cs[c].revision],
             ![mountpoint] = [state |-> "dirty",
                              rows |-> created.rows \cup below,
                              nested |-> moved,
                              revision |-> RetrieveInt(created.properties["revision"])]])

\* RemoveNestedCatalog: join the rows of the (mounted) child back into its
\* parent catalog.
RemoveNestedCatalog(cs, mountpoint) ==
  LET p == FindCatalog(cs, GetParentPath(mountpoint))
      child == cs[mountpoint]
      cleared(r) == [GetDirent(r, WriterSchema) EXCEPT
                       !.is_nested_catalog_root_ = FALSE,
                       !.is_nested_catalog_mountpoint_ = FALSE,
                       !.inode_ = r.inode]
      joined == {r \in child.rows : ~HasRow(cs[p].rows, r.md5path)}
      merged == cs[p].rows \cup joined
      rows == IF HasRow(merged, Md5(mountpoint))
              THEN SqlDirentUpdate(merged, Md5(mountpoint),
                                   cleared(RowAt(merged, Md5(mountpoint))))
              ELSE merged
  IN  IF \/ mountpoint = Root
         \/ mountpoint \notin NestedPaths(cs[p])
         \/ ~AcceptsMutations(cs[p])
         \/ ~AcceptsMutations(child)
      THEN Rejected(cs)
      ELSE Done([cs EXCEPT
             ![p] = [state |-> "dirty",
                     rows |-> rows,
                     nested |-> {n \in cs[p].nested : n.path # mountpoint}
                                \cup child.nested,
                     revision |-> cs[p].revision],
             ![mountpoint] = NoCatalog])

----------------------------------------------------------------------------
(* Mounting, and the walk that collects the catalogs Commit has to snapshot. *)

\* The catalogs a mutation has to find mounted before it can be applied.
RoutePaths(req) ==
  CASE req.op \in {"AddFile", "AddDirectory", "RemoveFile", "TouchEntry",
                   "ShrinkHardlinkGroup"} -> {GetParentPath(req.path)}
    [] req.op = "RemoveDirectory" -> {GetParentPath(req.path), req.path}
    [] req.op = "AddHardlinkGroup" -> {req.parent}
    [] req.op = "CreateNestedCatalog" -> {req.path}
    [] req.op = "RemoveNestedCatalog" -> {GetParentPath(req.path), req.path}
    [] OTHER -> {}

\* The catalogs a mutation writes to.
MutatedCatalogs(cs, req) ==
  CASE req.op \in {"AddFile", "AddDirectory", "RemoveFile", "RemoveDirectory",
                   "TouchEntry", "ShrinkHardlinkGroup"}
         -> {FindCatalog(cs, GetParentPath(req.path))}
    [] req.op = "AddHardlinkGroup" -> {FindCatalog(cs, req.parent)}
    [] req.op = "CreateNestedCatalog" -> {FindCatalog(cs, req.path)}
    [] req.op = "RemoveNestedCatalog"
         -> {FindCatalog(cs, GetParentPath(req.path)), req.path}
    [] OTHER -> {}

ToMount(cs, req) ==
  {FindCatalog(cs, p) : p \in RoutePaths(req)} \ {c \in DOMAIN cs : IsMounted(cs, c)}

\* MountCatalog: load the catalog file named by the nested_catalogs row of the
\* parent and attach it to the tree.
MountCatalog(cs, c) ==
  LET parent == CHOOSE p \in DOMAIN cs : IsMounted(cs, p) /\ c \in NestedPaths(cs[p])
  IN  [cs EXCEPT ![c] = Attach(NestedHash(cs[parent], c))]

\* A set of paths as a sequence, shorter paths first.
RECURSIVE SeqOf(_)
SeqOf(S) ==
  IF S = {} THEN <<>>
  ELSE LET m == CHOOSE m \in S : \A k \in S : Len(m) <= Len(k)
       IN  <<m>> \o SeqOf(S \ {m})

RECURSIVE Concat(_)
Concat(ss) == IF ss = <<>> THEN <<>> ELSE Head(ss) \o Concat(Tail(ss))

RECURSIVE Sum(_)
Sum(ns) == IF ns = <<>> THEN 0 ELSE Head(ns) + Sum(Tail(ns))

\* GetModifiedCatalogsRecursively: the number of dirty catalogs in the subtree
\* of c, and the catalogs of the subtree to snapshot: the children's lists,
\* then c itself if the subtree holds a dirty catalog.
RECURSIVE GetModifiedCatalogsRecursively(_, _)
GetModifiedCatalogsRecursively(cs, c) ==
  LET children == SeqOf(GetChildren(cs, c))
      walked == [i \in 1..Len(children) |->
                   GetModifiedCatalogsRecursively(cs, children[i])]
      dirty_catalogs == (IF cs[c].state = "dirty" THEN 1 ELSE 0)
                        + Sum([i \in 1..Len(children) |-> walked[i].dirty_catalogs])
      below == Concat([i \in 1..Len(children) |-> walked[i].result])
  IN  [dirty_catalogs |-> dirty_catalogs,
       result |-> IF dirty_catalogs > 0 THEN Append(below, c) ELSE below]

GetRootCatalog == Root

RECURSIVE Reverse(_)
Reverse(q) == IF q = <<>> THEN <<>> ELSE Append(Reverse(Tail(q)), Head(q))

\* GetModifiedCatalogs with the result filled from the front: parents first.
GetModifiedCatalogs_ParentsFirst(cs) ==
  Reverse(GetModifiedCatalogsRecursively(cs, GetRootCatalog).result)

\* GetModifiedCatalogs that does not descend: the root catalog alone.
GetModifiedCatalogs_RootOnly(cs) ==
  IF GetModifiedCatalogsRecursively(cs, GetRootCatalog).dirty_catalogs > 0
  THEN <<GetRootCatalog>> ELSE <<>>

\* GetModifiedCatalogs that keeps the catalogs with pending mutations only.
GetModifiedCatalogs_PendingOnly(cs) ==
  SelectSeq(GetModifiedCatalogsRecursively(cs, GetRootCatalog).result,
            LAMBDA c : cs[c].state = "dirty")

\* GetModifiedCatalogs: the walk from the root catalog.
GetModifiedCatalogs(cs) == GetModifiedCatalogsRecursively(cs, GetRootCatalog).result

\* SyncLock that returns without waiting for the holder.
SyncLock_NoWait(lock) == TRUE

\* SyncLock: pthread_mutex_lock(sync_lock_) returns once no thread holds it.
SyncLock(lock) == lock = NoThread

----------------------------------------------------------------------------
(* The repository the manager is constructed on. *)

DirEntry(path) ==
  CrawlerEntry(IF path = Root THEN "" ELSE GetFileName(path), "dir", 0)

ParentHash(path) == IF path = Root THEN Md5Null ELSE Md5(GetParentPath(path))

\* One catalog for the whole namespace.
FlatRepository ==
  [c \in DirPaths |->
     IF c = Root
     THEN [state |-> "clean",
           rows |-> {MakeRow(Md5(d), ParentHash(d), DirEntry(d)) : d \in DirPaths},
           nested |-> {},
           revision |-> 0]
     ELSE NoCatalog]

\* The same namespace with a nested catalog at /a, not mounted yet.
NestedRepository ==
  LET a == <<"a">>
      child == [rows |-> DatabaseCreate(NoFile,
                           [DirEntry(a) EXCEPT !.is_nested_catalog_root_ = TRUE], a).rows
                         \cup {MakeRow(Md5(<<"a", "b">>), Md5(a), DirEntry(<<"a", "b">>))},
                nested |-> {},
                revision |-> 0]
  IN  [c \in DirPaths |->
         IF c = Root
         THEN [state |-> "clean",
               rows |-> DatabaseCreate(NoFile, DirEntry(Root), Root).rows
                        \cup {MakeRow(Md5(a), Md5(Root),
                                      [DirEntry(a) EXCEPT !.is_nested_catalog_mountpoint_ = TRUE]),
                              MakeRow(Md5(<<"c">>), Md5(Root), DirEntry(<<"c">>))},
               nested |-> {[path |-> a, sha1 |-> child]},
               revision |-> 0]
         ELSE IF c = a THEN Unmounted
         ELSE NoCatalog]

NoHistory ==
  [outcome |-> "never", dirtyAtStart |-> {}, mountedAtStart |-> {},
   revAtStart |-> [c \in DirPaths |-> 0], snapshotted |-> <<>>,
   detached |-> {}, liveAtReturn |-> {}]

\* No symlink target: the row is not written, the entry is not read out.
NoSymlink == [none |-> TRUE]

\* The inode cache before InodeCache is constructed.
NoLru == [none |-> TRUE]
NoRet == [op |-> "none"]

\* No entry bound to a statement, no row read out.
NoDirent == [none |-> TRUE]

\* No RecursionEngine constructed, no Recurse made.
NoEngine == [none |-> TRUE]
NoWalk == [none |-> TRUE]

\* No Database object constructed, and no call made on the class yet.
NoDb == [none |-> TRUE]
NoDbCall == [op |-> "none"]
NoLruHistory == [used |-> <<>>, inserted |-> <<>>, before |-> NoLru]

Init ==
  /\ catalogs \in {FlatRepository, NestedRepository}
  /\ sync_lock_ = NoThread
  /\ pc = [t \in Workers |-> "idle"]
  /\ call = [t \in Workers |-> NoCall]
  /\ result = [t \in Workers |-> "none"]
  /\ opsDone = 0
  /\ commitPc = "idle"
  /\ commitList = <<>>
  /\ artifact = NullHash
  /\ uploads = <<>>
  /\ manifest = NoManifest
  /\ commitsDone = 0
  /\ hist = NoHistory
  /\ lru = NoLru
  /\ lruRet = NoRet
  /\ lruHist = NoLruHistory
  /\ symlink = NoSymlink
  /\ environ = <<>>
  /\ symlink_ = NoSymlink
  /\ dirent = NoDirent
  /\ columns = NoDirent
  /\ dirent_ = NoDirent
  /\ file = NoFile
  /\ db = NoDb
  /\ dbCall = NoDbCall
  /\ hardlinked = NoDirent
  /\ engine = NoEngine
  /\ walk = NoWalk

----------------------------------------------------------------------------
(* The calls of the crawler's worker threads. *)

Requests ==
  [op : {"AddFile", "RemoveFile"}, path : FilePaths]
  \cup [op : {"AddDirectory", "RemoveDirectory"}, path : {<<"a", "b">>}]
  \cup [op : {"TouchEntry"}, path : {<<"a">>, <<"a", "x">>}]
  \cup {[op |-> "AddHardlinkGroup", paths |-> g, parent |-> <<"a">>] : g \in HardlinkGroups}
  \cup [op : {"ShrinkHardlinkGroup"}, path : UNION HardlinkGroups]
  \cup [op : {"CreateNestedCatalog", "RemoveNestedCatalog"}, path : DirPaths \ {Root}]

CommitRunning == commitPc \in {"upload", "record"}

\* The tree once every catalog on the route of a mutation is mounted.
RECURSIVE MountAll(_, _)
MountAll(cs, req) ==
  IF ToMount(cs, req) = {} THEN cs
  ELSE MountAll(MountCatalog(cs, CHOOSE c \in ToMount(cs, req) : TRUE), req)

\* A worker enters a mutation: it takes the sync lock.
Begin(t, req) ==
  /\ pc[t] = "idle"
  /\ opsDone < MaxOps
  /\ SyncLock(sync_lock_)
  /\ sync_lock_' = t
  /\ pc' = [pc EXCEPT ![t] = "locked"]
  /\ call' = [call EXCEPT ![t] = req]
  /\ result' = [result EXCEPT ![t] = "none"]
  /\ opsDone' = opsDone + 1
  /\ UNCHANGED <<catalogs, commitPc, commitList, artifact, uploads, manifest,
                 commitsDone, hist>>
  /\ UNCHANGED readerVars

\* The mount a mutation induces, under the lock of the mutation.
MountStep(t) ==
  /\ pc[t] = "locked"
  /\ ToMount(catalogs, call[t]) # {}
  /\ catalogs' = MountCatalog(catalogs, CHOOSE c \in ToMount(catalogs, call[t]) : TRUE)
  /\ UNCHANGED <<sync_lock_, pc, call, result, opsDone, commitPc, commitList,
                 artifact, uploads, manifest, commitsDone, hist>>
  /\ UNCHANGED readerVars

\* The end of a mutation: its outcome is applied and the lock released.
Finish(t, outcome) ==
  /\ catalogs' = outcome.cs
  /\ result' = [result EXCEPT ![t] =
                  IF outcome.ok THEN "ok"
                  ELSE IF \E c \in MutatedCatalogs(catalogs, call[t]) :
                            catalogs[c].state = "snapshotting"
                       THEN "snapshotting"
                       ELSE "error"]
  /\ sync_lock_' = NoThread
  /\ pc' = [pc EXCEPT ![t] = "idle"]
  /\ call' = [call EXCEPT ![t] = NoCall]
  /\ UNCHANGED <<opsDone, commitPc, commitList, artifact, uploads, manifest, commitsDone>>
  /\ UNCHANGED readerVars

Ready(t, op) ==
  /\ pc[t] = "locked"
  /\ call[t].op = op
  /\ ToMount(catalogs, call[t]) = {}

AddFileStep(t) ==
  /\ Ready(t, "AddFile")
  /\ Finish(t, AddEntry(catalogs, CrawlerEntry(GetFileName(call[t].path), "reg", 0),
                        call[t].path))
  /\ UNCHANGED hist

AddDirectoryStep(t) ==
  /\ Ready(t, "AddDirectory")
  /\ Finish(t, AddEntry(catalogs, DirEntry(call[t].path), call[t].path))
  /\ UNCHANGED hist

RemoveFileStep(t) ==
  /\ Ready(t, "RemoveFile")
  /\ Finish(t, RemoveFile(catalogs, call[t].path))
  /\ UNCHANGED hist

RemoveDirectoryStep(t) ==
  /\ Ready(t, "RemoveDirectory")
  /\ Finish(t, RemoveDirectory(catalogs, call[t].path))
  /\ UNCHANGED hist

TouchEntryStep(t) ==
  /\ Ready(t, "TouchEntry")
  /\ Finish(t, TouchEntry(catalogs, CrawlerEntry(GetFileName(call[t].path), "reg", 1),
                          call[t].path))
  /\ UNCHANGED hist

AddHardlinkGroupStep(t) ==
  /\ Ready(t, "AddHardlinkGroup")
  /\ Finish(t, AddHardlinkGroup(catalogs, call[t].paths, call[t].parent))
  /\ UNCHANGED hist

ShrinkHardlinkGroupStep(t) ==
  /\ Ready(t, "ShrinkHardlinkGroup")
  /\ Finish(t, ShrinkHardlinkGroup(catalogs, call[t].path))
  /\ UNCHANGED hist

CreateNestedCatalogStep(t) ==
  /\ Ready(t, "CreateNestedCatalog")
  /\ Finish(t, CreateNestedCatalog(catalogs, call[t].path))
  /\ UNCHANGED hist

RemoveNestedCatalogStep(t) ==
  /\ Ready(t, "RemoveNestedCatalog")
  /\ LET outcome == RemoveNestedCatalog(catalogs, call[t].path)
     IN  /\ Finish(t, outcome)
         /\ hist' = IF outcome.ok /\ CommitRunning
                    THEN [hist EXCEPT !.detached = @ \cup {call[t].path}]
                    ELSE hist

----------------------------------------------------------------------------
(* Commit: the snapshot of the modified catalogs, children before parents. *)

\* The rows a repository revision shows, from the hash of a catalog file down.
RECURSIVE HashRows(_)
HashRows(hash) ==
  IF hash = NullHash THEN {}
  ELSE hash.rows \cup UNION {HashRows(n.sha1) : n \in hash.nested}

\* The rows the manager shows, from catalog c down: a mounted catalog by its
\* store, a catalog not mounted by the file its parent names.
RECURSIVE LiveRows(_, _)
LiveRows(cs, c) ==
  cs[c].rows \cup UNION {IF IsMounted(cs, n.path) THEN LiveRows(cs, n.path)
                         ELSE HashRows(n.sha1) : n \in cs[c].nested}

\* Steps 3a and 3b on one catalog: revision + 1, and the file finalized.
Finalized(cat) == [cat EXCEPT !.revision = @ + 1, !.state = "snapshotting"]

\* Step 3d on the tree: the hash of catalog c goes to the nested_catalogs row
\* of its parent, which is dirty from then on; c is clean again.
Recorded(cs, c, hash) ==
  [p \in DirPaths |->
     IF p = c THEN [cs[p] EXCEPT !.state = "clean"]
     ELSE IF p \in ParentsOf(cs, c)
     THEN [cs[p] EXCEPT !.state = "dirty",
                        !.nested = {IF n.path = c THEN [n EXCEPT !.sha1 = hash]
                                    ELSE n : n \in @}]
     ELSE cs[p]]

\* A Commit that runs to its end with no failure and no other thread at work.
RECURSIVE SnapshotAll(_, _)
SnapshotAll(cs, list) ==
  IF list = <<>> THEN cs
  ELSE LET c == Head(list)
           finalized == [cs EXCEPT ![c] = Finalized(cs[c])]
       IN  SnapshotAll(Recorded(finalized, c, ContentHash(finalized[c])), Tail(list))

CommitAlone(cs) == SnapshotAll(cs, GetModifiedCatalogs(cs))

\* The catalog file, from the file named hash down, that lists directory path.
RECURSIVE FindHash(_, _)
FindHash(hash, path) ==
  LET next == {n \in hash.nested : IsPrefix(n.path, path) /\ n.sha1 # NullHash}
  IN  IF next = {} THEN hash
      ELSE FindHash((CHOOSE n \in next : \A k \in next : Len(n.path) <= Len(k.path)).sha1,
                    path)

\* The listing of a directory in the repository revision of a root hash.
ListingAt(hash, path) == SqlListing(FindHash(hash, path).rows, Md5(path))

CommitFails ==
  /\ commitPc' = "failed"
  /\ manifest' = NoManifest
  /\ hist' = [hist EXCEPT !.outcome = "failed"]
  /\ UNCHANGED <<sync_lock_, pc, call, result, opsDone, artifact, uploads>>

\* Steps 3a and 3b for catalog c of tree cs, under the lock: revision + 1 and
\* the file finalized; Commit then leaves the lock for the upload.  The
\* finalization may fail, and it fails for a catalog that left the tree.
SnapshotFinalize(cs, c, rest, h, built) ==
  LET finalized == Finalized(cs[c])
  IN  \/ /\ AcceptsMutations(cs[c])
         /\ catalogs' = [cs EXCEPT ![c] = finalized]
         /\ artifact' = ContentHash(finalized)
         /\ commitPc' = "upload"
         /\ commitList' = <<c>> \o rest
         /\ manifest' = built
         /\ hist' = [h EXCEPT !.snapshotted = Append(@, c)]
         /\ UNCHANGED <<sync_lock_, pc, call, result, opsDone>>
      \/ /\ catalogs' = cs
         /\ commitList' = <<c>> \o rest
         /\ commitPc' = "failed"
         /\ manifest' = NoManifest
         /\ artifact' = NullHash
         /\ hist' = [h EXCEPT !.outcome = "failed"]
         /\ UNCHANGED <<sync_lock_, pc, call, result, opsDone>>

\* Commit is called: under the lock, the walk over the tree and the
\* finalization of the first catalog to snapshot.
CommitBegin ==
  /\ commitPc = "idle"
  /\ commitsDone < MaxCommits
  /\ SyncLock(sync_lock_)
  /\ UNCHANGED readerVars
  /\ commitsDone' = commitsDone + 1
  /\ uploads' = <<>>
  /\ LET catalogs_to_snapshot == GetModifiedCatalogs(catalogs)
         started == [outcome |-> "running",
                     dirtyAtStart |-> {c \in DirPaths : catalogs[c].state = "dirty"},
                     mountedAtStart |-> {c \in DirPaths : IsMounted(catalogs, c)},
                     revAtStart |-> [c \in DirPaths |-> catalogs[c].revision],
                     snapshotted |-> <<>>,
                     detached |-> {},
                     liveAtReturn |-> {}]
     IN  IF catalogs_to_snapshot = <<>>
         THEN /\ hist' = [started EXCEPT !.outcome = "none"]
              /\ manifest' = NoManifest
              /\ artifact' = NullHash
              /\ UNCHANGED <<catalogs, sync_lock_, pc, call, result, opsDone,
                             commitPc, commitList>>
         ELSE SnapshotFinalize(catalogs, Head(catalogs_to_snapshot),
                               Tail(catalogs_to_snapshot), started, NoManifest)

\* Step 3c: the file goes to the upload spooler, without the lock.
SnapshotUpload ==
  /\ commitPc = "upload"
  /\ UNCHANGED readerVars
  /\ \/ /\ uploads' = Append(uploads, [catalog |-> Head(commitList), hash |-> artifact])
        /\ commitPc' = "record"
        /\ UNCHANGED <<catalogs, sync_lock_, pc, call, result, opsDone, commitList,
                       artifact, manifest, commitsDone, hist>>
     \/ /\ CommitFails
        /\ UNCHANGED <<catalogs, commitList, commitsDone>>

\* Step 3d and step 4, under the lock again: the hash goes to the
\* nested_catalogs row of the parent, which is dirty from then on; the root
\* catalog's hash makes the manifest; then the next catalog is finalized, or
\* Commit returns at the end of the list.
SnapshotRecord ==
  /\ commitPc = "record"
  /\ SyncLock(sync_lock_)
  /\ UNCHANGED <<uploads, commitsDone>>
  /\ UNCHANGED readerVars
  /\ LET c == Head(commitList)
         hash == uploads[Len(uploads)].hash
         recorded == Recorded(catalogs, c, hash)
         built == IF c = GetRootCatalog
                  THEN [root_hash |-> hash, revision |-> recorded[c].revision]
                  ELSE manifest
     IN  IF Tail(commitList) = <<>>
         THEN /\ catalogs' = recorded
              /\ commitList' = <<>>
              /\ manifest' = built
              /\ commitPc' = "idle"
              /\ hist' = [hist EXCEPT
                            !.outcome = IF built = NoManifest THEN "none" ELSE "manifest",
                            !.liveAtReturn = LiveRows(recorded, Root)]
              /\ UNCHANGED <<sync_lock_, pc, call, result, opsDone, artifact>>
         ELSE SnapshotFinalize(recorded, Head(Tail(commitList)),
                               Tail(Tail(commitList)), hist, built)

Next ==
  \/ \E t \in Workers, req \in Requests : Begin(t, req)
  \/ \E t \in Workers : MountStep(t)
  \/ \E t \in Workers : AddFileStep(t)
  \/ \E t \in Workers : AddDirectoryStep(t)
  \/ \E t \in Workers : RemoveFileStep(t)
  \/ \E t \in Workers : RemoveDirectoryStep(t)
  \/ \E t \in Workers : TouchEntryStep(t)
  \/ \E t \in Workers : AddHardlinkGroupStep(t)
  \/ \E t \in Workers : ShrinkHardlinkGroupStep(t)
  \/ \E t \in Workers : CreateNestedCatalogStep(t)
  \/ \E t \in Workers : RemoveNestedCatalogStep(t)
  \/ CommitBegin
  \/ SnapshotUpload
  \/ SnapshotRecord

Spec == Init /\ [][Next]_vars

----------------------------------------------------------------------------
(* Properties. *)

Range(f) == {f[i] : i \in DOMAIN f}

\* The catalogs that were dirty when the running Commit started: those with
\* pending mutations and those above one.
DirtyAtStart ==
  {c \in hist.mountedAtStart : \E d \in hist.dirtyAtStart : IsPrefix(c, d)}

\* C1: during Commit a catalog is snapshotted only after every one of its
\* dirty descendants has been snapshotted, and the catalogs a Commit that
\* returns a manifest has snapshotted are exactly those that had pending
\* mutations or a dirty descendant when it started.
C1_PostOrder ==
  /\ \A i \in 1..Len(hist.snapshotted) :
       \A d \in DirtyAtStart :
         (IsPrefix(hist.snapshotted[i], d) /\ d # hist.snapshotted[i])
            => \E j \in 1..(i - 1) : hist.snapshotted[j] = d
  /\ hist.outcome = "manifest" => Range(hist.snapshotted) = DirtyAtStart

\* A Commit that returned a manifest after snapshotting a chain of three
\* catalogs, one of them without pending mutations of its own.
C1_Witness ==
  /\ hist.outcome = "manifest"
  /\ Len(hist.snapshotted) >= 3
  /\ \E c \in Range(hist.snapshotted) : c \notin hist.dirtyAtStart
  /\ <<"a", "b">> \in hist.dirtyAtStart


\* The uploads of the running or last Commit that handed over catalog c.
UploadsOf(c) == {i \in 1..Len(uploads) : uploads[i].catalog = c}
FinalUpload(c) == CHOOSE i \in UploadsOf(c) : \A j \in UploadsOf(c) : j <= i

\* C2: whenever Commit returns a manifest, every nested_catalogs row of every
\* snapshotted parent holds the hash the spooler returned for the final upload
\* of that child (never the placeholder), the parent's artifact was uploaded
\* after that row was written, and the manifest's root hash is the hash
\* returned for the upload of the root catalog.
C2_HashChain ==
  manifest # NoManifest =>
    /\ UploadsOf(Root) # {}
    /\ manifest.root_hash = uploads[FinalUpload(Root)].hash
    /\ \A i \in 1..Len(uploads) :
         \A n \in uploads[i].hash.nested :
           /\ n.sha1 # NullHash
           /\ UploadsOf(n.path) # {} =>
                /\ FinalUpload(n.path) < i
                /\ n.sha1 = uploads[FinalUpload(n.path)].hash


\* C3: Commit returns a manifest or produces none: when the finalization or
\* the upload of a catalog fails there is no manifest, and there is a manifest
\* only when every catalog that was dirty at the start, the root catalog
\* included, was finalized and uploaded.
C3_ManifestOrNone ==
  /\ hist.outcome \in {"never", "running", "none", "failed"} => manifest = NoManifest
  /\ commitPc = "failed" => hist.outcome = "failed"
  /\ manifest # NoManifest =>
       /\ hist.outcome = "manifest"
       /\ \A c \in DirtyAtStart \cup {Root} : UploadsOf(c) # {}

\* A Commit that failed after a child catalog had been uploaded already.
C3_Witness ==
  /\ commitPc = "failed"
  /\ Len(uploads) >= 1
  /\ manifest = NoManifest


\* C4: when Commit returns, the revision of every catalog that was mounted
\* when it started has grown by exactly one if the catalog was dirty then
\* (pending mutations or a dirty descendant) and is unchanged otherwise.
C4_Revision ==
  [][(hist' # hist /\ hist'.outcome \in {"manifest", "none"}) =>
       \A c \in hist'.mountedAtStart \ hist'.detached :
         IsMounted(catalogs', c) =>
           catalogs'[c].revision =
             hist'.revAtStart[c] + (IF c \in DirtyAtStart' THEN 1 ELSE 0)]_vars

\* A Commit has returned a manifest with one mounted catalog left at its
\* revision and another one moved up by one.
C4_Witness ==
  /\ hist.outcome = "manifest"
  /\ \E c \in hist.mountedAtStart \ DirtyAtStart :
       IsMounted(catalogs, c) /\ catalogs[c].revision = hist.revAtStart[c]
  /\ \E d \in DirtyAtStart : catalogs[d].revision = hist.revAtStart[d] + 1


\* C5: every mutation that completed successfully before Commit returned is
\* reflected in the catalogs the returned manifest refers to: the rows reached
\* from the manifest's root hash are the rows the manager showed at the return.
C5_MutationsVisible ==
  hist.outcome = "manifest" => HashRows(manifest.root_hash) = hist.liveAtReturn


\* C6: with several worker threads calling the mutating operations, at most
\* one mutation, together with the mount it induces, is in progress at any
\* time: the thread in a mutation is the one holder of the sync lock.
C6_OneMutation ==
  /\ \A t, u \in Workers : (pc[t] = "locked" /\ pc[u] = "locked") => t = u
  /\ \A t \in Workers : pc[t] = "locked" <=> sync_lock_ = t

\* One worker is in a mutation that has a catalog to mount first, after the
\* other worker has completed a mutation of its own.
C6_Witness ==
  \E t, u \in Workers :
    /\ t # u
    /\ pc[t] = "locked"
    /\ ToMount(catalogs, call[t]) # {}
    /\ pc[u] = "idle"
    /\ result[u] = "ok"


\* C7: a mutation routed to a catalog in the Snapshotting state is rejected
\* and changes no row; the rows of a catalog change under a mutation only
\* while the catalog is Mounted(clean) or Mounted(dirty), or as it is created.
C7_SnapshottingRejects ==
  [][\A t \in Workers :
       (pc[t] = "locked" /\ pc'[t] = "idle") =>
         /\ (\E c \in MutatedCatalogs(catalogs, call[t]) :
               catalogs[c].state = "snapshotting")
              => (catalogs' = catalogs /\ result'[t] = "snapshotting")
         /\ \A c \in DirPaths :
              catalogs'[c].rows # catalogs[c].rows
                => catalogs[c].state \in {"clean", "dirty", "none"}]_vars

\* A worker's mutation has been rejected by a catalog that Commit has at the
\* spooler, while the other worker's mutation went through.
C7_Witness ==
  \E t, u \in Workers :
    /\ pc[t] = "idle"
    /\ result[t] = "snapshotting"
    /\ result[u] = "ok"
    /\ commitPc = "upload"


Quiescent == commitPc = "idle" /\ \A t \in Workers : pc[t] = "idle"

SplitRequest(m) == [op |-> "CreateNestedCatalog", path |-> m]
Split(m) == CreateNestedCatalog(MountAll(catalogs, SplitRequest(m)), m)
SplitJoin(m) == RemoveNestedCatalog(Split(m).cs, m)

\* C8: for any directory m that can be split off, CreateNestedCatalog(m);
\* RemoveNestedCatalog(m); Commit gives at every path the listing that Commit
\* alone gives, and the parent catalog is left with no nested_catalogs row and
\* no nested flag for m.
C8_SplitJoin ==
  Quiescent =>
    LET alone == ContentHash(CommitAlone(catalogs)[Root])
    IN  \A m \in DirPaths \ {Root} :
          Split(m).ok =>
            LET joined == SplitJoin(m)
                parent == joined.cs[FindCatalog(joined.cs, GetParentPath(m))]
                after == ContentHash(CommitAlone(joined.cs)[Root])
            IN  /\ joined.ok
                /\ \A p \in AllPaths : ListingAt(after, p) = ListingAt(alone, p)
                /\ m \notin NestedPaths(parent)
                /\ RowAt(parent.rows, Md5(m)).flags = {kFlagDir}

\* A repository where /a, touched and holding entries, can be split off: the
\* split moves rows to the new catalog, and the join brings them back.
C8_Witness ==
  /\ Quiescent
  /\ Split(<<"a">>).ok
  /\ Cardinality(Split(<<"a">>).cs[<<"a">>].rows) >= 3
  /\ RowAt(catalogs[Root].rows, Md5(<<"a">>)).mtime = 1
  /\ SplitJoin(<<"a">>).ok


\* C9: every directory row flagged as nested mountpoint in a catalog P has a
\* nested_catalogs row for the same path in P, and the child catalog there
\* (mounted, or the file the row names) has a root row at the same path
\* flagged as nested root.
C9_MountpointHasChild ==
  \A P \in DirPaths :
    IsMounted(catalogs, P) =>
      \A r \in catalogs[P].rows :
        kFlagDirNestedMountpoint \in r.flags =>
          \E n \in catalogs[P].nested :
            /\ Md5(n.path) = r.md5path
            /\ LET child == IF IsMounted(catalogs, n.path) THEN catalogs[n.path].rows
                            ELSE HashRows(n.sha1)
               IN  \E root \in child :
                     /\ root.md5path = r.md5path
                     /\ kFlagDirNestedRoot \in root.flags

\* After a Commit that returned a manifest, /c is a mountpoint in the root
\* catalog, with the catalog split off there mounted and snapshotted.
C9_Witness ==
  /\ hist.outcome = "manifest"
  /\ HasRow(catalogs[Root].rows, Md5(<<"c">>))
  /\ kFlagDirNestedMountpoint \in RowAt(catalogs[Root].rows, Md5(<<"c">>)).flags
  /\ catalogs[<<"c">>].state = "clean"
  /\ catalogs[<<"c">>].revision = 1


\* The crawler restricted to AddFile, AddHardlinkGroup and ShrinkHardlinkGroup.
LinkRequests ==
  {req \in Requests : req.op \in {"AddFile", "AddHardlinkGroup", "ShrinkHardlinkGroup"}}

NextLinks ==
  \/ \E t \in Workers, req \in LinkRequests : Begin(t, req)
  \/ \E t \in Workers : MountStep(t)
  \/ \E t \in Workers : AddFileStep(t)
  \/ \E t \in Workers : AddHardlinkGroupStep(t)
  \/ \E t \in Workers : ShrinkHardlinkGroupStep(t)

SpecLinks == Init /\ [][NextLinks]_vars

\* The rows of a catalog that carry hardlink group id g.
GroupRows(rows, g) == {r \in rows : Hardlinks2HardlinkGroup(r.inode) = g}

\* C10: after any sequence of successful AddFile, AddHardlinkGroup and
\* ShrinkHardlinkGroup, for every nonzero hardlink group id g of a catalog the
\* number of rows carrying g is at least 2 and equals the link-count stored in
\* each of those rows.
C10_GroupCount ==
  \A c \in DirPaths :
    \A r \in catalogs[c].rows :
      LET g == Hardlinks2HardlinkGroup(r.inode)
          n == Cardinality(GroupRows(catalogs[c].rows, g))
      IN  g # U32(0) => (n >= 2 /\ Hardlinks2Linkcount(r.inode) = U32(n))


----------------------------------------------------------------------------
(* Allocation of hardlink group ids. *)

\* Order of two 32-bit words read as unsigned integers.
UnsignedLess32(v, w) == v[1] < w[1] \/ (v[1] = w[1] /\ v[2] < w[2])

\* The largest group id carried by a row (0 for an empty catalog).
MaxGroupPresent(rows) ==
  IF rows = {} THEN U32(0)
  ELSE LET r == CHOOSE r \in rows : \A s \in rows :
                  ~UnsignedLess32(Hardlinks2HardlinkGroup(r.inode),
                                  Hardlinks2HardlinkGroup(s.inode))
       IN  Hardlinks2HardlinkGroup(r.inode)

GroupRequest(G) == [op |-> "AddHardlinkGroup", paths |-> G, parent |-> <<"a">>]
GroupBefore(G) == MountAll(catalogs, GroupRequest(G))
GroupAdded(G) == AddHardlinkGroup(GroupBefore(G), G, <<"a">>)

\* C11: AddHardlinkGroup(entries, parent_dir) inserts all entries with one
\* common group id, equal to the maximum group id present in the owning
\* catalog plus one, nonzero and carried by no other row of that catalog, and
\* with link-count equal to the number of entries.
C11_FreshGroup ==
  Quiescent =>
    \A G \in HardlinkGroups :
      GroupAdded(G).ok =>
        LET c == FindCatalog(GroupBefore(G), <<"a">>)
            old == GroupBefore(G)[c].rows
            new == GroupAdded(G).cs[c].rows
            id == AddU32(MaxGroupPresent(old), 1)
        IN  /\ id # U32(0)
            /\ \A p \in G :
                 /\ HasRow(new, Md5(p))
                 /\ Hardlinks2HardlinkGroup(RowAt(new, Md5(p)).inode) = id
                 /\ Hardlinks2Linkcount(RowAt(new, Md5(p)).inode) = U32(Cardinality(G))
            /\ GroupRows(new, id) = {RowAt(new, Md5(p)) : p \in G}
            /\ new \ GroupRows(new, id) = old

----------------------------------------------------------------------------
(* Shrinking a hardlink group. *)

\* Groups of two and of three entries below /a.
ShrinkGroups ==
  HardlinkGroups \cup {{<<"a", "x">>, <<"a", "y">>, <<"a", "w">>}}

Shrunk(G, p) == ShrinkHardlinkGroup(GroupAdded(G).cs, p)

\* C12: ShrinkHardlinkGroup(path) on a member of a hardlink group of size n
\* removes that row and leaves each other member with link-count n-1 and the
\* same group id; when n = 2 the surviving row has group id 0 and reads
\* link-count 1.
C12_ShrinkGroup ==
  Quiescent =>
    \A G \in ShrinkGroups :
      GroupAdded(G).ok =>
        \A p \in G :
          LET c == FindCatalog(GroupBefore(G), <<"a">>)
              before == GroupAdded(G).cs[c].rows
              after == Shrunk(G, p).cs[c].rows
              n == Cardinality(G)
          IN  /\ Shrunk(G, p).ok
              /\ ~HasRow(after, Md5(p))
              /\ \A q \in G \ {p} :
                   /\ HasRow(after, Md5(q))
                   /\ Hardlinks2Linkcount(RowAt(after, Md5(q)).inode) = U32(n - 1)
                   /\ Hardlinks2HardlinkGroup(RowAt(after, Md5(q)).inode) =
                        IF n = 2 THEN U32(0)
                        ELSE Hardlinks2HardlinkGroup(RowAt(before, Md5(q)).inode)

\* A worker about to shrink the group {/a/x, /a/y}, stored with a nonzero id
\* and link-count 2: the step leaves the other member as an ordinary file.
C12_Witness ==
  \E t \in Workers :
    /\ Ready(t, "ShrinkHardlinkGroup")
    /\ LET rows == catalogs[Root].rows
           p == call[t].path
           after == ShrinkHardlinkGroup(catalogs, p).cs[Root].rows
       IN  /\ HasRow(rows, Md5(p))
           /\ Hardlinks2HardlinkGroup(RowAt(rows, Md5(p)).inode) # U32(0)
           /\ Cardinality(GroupRows(rows, Hardlinks2HardlinkGroup(RowAt(rows, Md5(p)).inode))) = 2
           /\ Hardlinks2Linkcount(RowAt(rows, Md5(p)).inode) = U32(2)
           /\ \E q \in FilePaths \ {p} :
                /\ HasRow(after, Md5(q))
                /\ RowAt(rows, Md5(q)).inode = RowAt(rows, Md5(p)).inode
                /\ RowAt(after, Md5(q)).inode = U64Zero

----------------------------------------------------------------------------
(* LruCache (lru_cache.h) and InodeCache (inode_cache.cc).  The doubly      *)
(* linked list mLruList is the sequence of its contents from the front (the *)
(* oldest) to the back; a pointer to a list entry is the key it contains.   *)

MaxKey == 3
MaxCapacity == 3

Keys == 1..MaxKey
Values == {"A", "B"}
Capacities == 1..MaxCapacity

\* ListEntryHead::push_back
push_back(list, content) == Append(list, content)

\* ListEntryContent::removeFromList
removeFromList(list, entry) == SelectSeq(list, LAMBDA x : x # entry)

\* ListEntryHead::moveToBack
moveToBack(list, entry) == push_back(removeFromList(list, entry), entry)

\* ListEntryHead::getFront and pop_front
getFront(list) == Head(list)
pop_front(list) == Tail(list)

\* The constructor.
LruCache(maxCacheSize) ==
  [mCurrentCacheSize |-> 0, mMaxCacheSize |-> maxCacheSize,
   mLruList |-> <<>>, mCache |-> <<>>]

\* A cache that is full only when it holds more entries than its maximum.
isFull_Late(cache) == cache.mCurrentCacheSize > cache.mMaxCacheSize

isFull(cache) == cache.mCurrentCacheSize >= cache.mMaxCacheSize

getNumberOfEntries(cache) == cache.mCurrentCacheSize

lookupCache(cache, key) == key \in DOMAIN cache.mCache

insertNewEntry(cache, key, value) ==
  [cache EXCEPT
     !.mLruList = push_back(cache.mLruList, key),
     !.mCache = (key :> [listEntry |-> key, value |-> value]) @@ cache.mCache,
     !.mCurrentCacheSize = cache.mCurrentCacheSize + 1]

\* An update that leaves the stored entry as it was.
updateExistingEntry_Keep(cache, key, entry) == cache

updateExistingEntry(cache, key, entry) ==
  [cache EXCEPT !.mCache = [cache.mCache EXCEPT ![key] = entry]]

\* A touch that leaves the list as it was.
touchEntry_Still(cache, entry) == cache

touchEntry(cache, entry) ==
  [cache EXCEPT !.mLruList = moveToBack(cache.mLruList, entry.listEntry)]

\* The deletion of the entry at the back of the list, the most recently used.
deleteOldestEntry_Newest(cache) ==
  LET keyToDelete == cache.mLruList[Len(cache.mLruList)]
  IN  [cache EXCEPT
         !.mLruList = SubSeq(cache.mLruList, 1, Len(cache.mLruList) - 1),
         !.mCache = [k \in DOMAIN cache.mCache \ {keyToDelete} |-> cache.mCache[k]],
         !.mCurrentCacheSize = cache.mCurrentCacheSize - 1]

\* The deletion of the oldest entry without mCache.erase.
deleteOldestEntry_NoErase(cache) ==
  [cache EXCEPT
     !.mLruList = pop_front(cache.mLruList),
     !.mCurrentCacheSize = cache.mCurrentCacheSize - 1]

deleteOldestEntry(cache) ==
  LET keyToDelete == getFront(cache.mLruList)
  IN  [cache EXCEPT
         !.mLruList = pop_front(cache.mLruList),
         !.mCache = [k \in DOMAIN cache.mCache \ {keyToDelete} |-> cache.mCache[k]],
         !.mCurrentCacheSize = cache.mCurrentCacheSize - 1]

\* insert that makes no room in a full cache.
insert_NoEvict(cache, key, value) ==
  IF lookupCache(cache, key)
  THEN LET entry == [cache.mCache[key] EXCEPT !.value = value]
       IN  touchEntry(updateExistingEntry(cache, key, entry), entry)
  ELSE insertNewEntry(cache, key, value)

\* insert that returns at once when the key is present.
insert_IgnoreExisting(cache, key, value) ==
  IF lookupCache(cache, key) THEN cache
  ELSE insertNewEntry(IF isFull(cache) THEN deleteOldestEntry(cache) ELSE cache,
                      key, value)

insert(cache, key, value) ==
  IF lookupCache(cache, key)
  THEN LET entry == [cache.mCache[key] EXCEPT !.value = value]
       IN  touchEntry(updateExistingEntry(cache, key, entry), entry)
  ELSE insertNewEntry(IF isFull(cache) THEN deleteOldestEntry(cache) ELSE cache,
                      key, value)

\* lookup: the cache afterwards, whether the key was found, and the value
\* written to the out-parameter (left alone on a miss).
lookup(cache, key) ==
  IF lookupCache(cache, key)
  THEN [cache |-> touchEntry(cache, cache.mCache[key]), hit |-> TRUE,
        value |-> cache.mCache[key].value]
  ELSE [cache |-> cache, hit |-> FALSE, value |-> "unaltered"]

\* drop that leaves mLruList as it was.
drop_KeepList(cache) ==
  [cache EXCEPT !.mCurrentCacheSize = 0, !.mCache = <<>>]

drop(cache) ==
  [cache EXCEPT !.mCurrentCacheSize = 0, !.mLruList = <<>>, !.mCache = <<>>]

\* resize without the loop that deletes the oldest entries.
resize_NoEvict(cache, newSize) == [cache EXCEPT !.mMaxCacheSize = newSize]

RECURSIVE resize(_, _)
resize(cache, newSize) ==
  IF cache.mCurrentCacheSize > newSize
  THEN resize(deleteOldestEntry(cache), newSize)
  ELSE [cache EXCEPT !.mMaxCacheSize = newSize]

\* InodeCache: the calls go to LruCache<fuse_ino_t, DirectoryEntry>.
InodeCache(cacheSize) == LruCache(cacheSize)
InodeCache_insert(cache, inode, dirEntry) == insert(cache, inode, dirEntry)
InodeCache_lookup(cache, inode) == lookup(cache, inode)
InodeCache_drop(cache) == drop(cache)

\* The order of the keys by their most recent Insert or Lookup hit.
Used(used, key) == SelectSeq(used, LAMBDA x : x # key) \o <<key>>

Construct(cacheSize) ==
  /\ lru = NoLru
  /\ lru' = InodeCache(cacheSize)
  /\ lruRet' = [op |-> "construct", size |-> cacheSize]
  /\ lruHist' = [lruHist EXCEPT !.before = lru]
  /\ UNCHANGED <<writerVars, walkVars, hardlinkVars, symlinkVars, marshalVars, dbVars>>

Insert(key, value) ==
  /\ lru # NoLru
  /\ lru' = InodeCache_insert(lru, key, value)
  /\ lruRet' = [op |-> "insert", key |-> key, value |-> value]
  /\ lruHist' = [used |-> Used(lruHist.used, key),
                 inserted |-> (key :> value) @@ lruHist.inserted,
                 before |-> lru]
  /\ UNCHANGED <<writerVars, walkVars, hardlinkVars, symlinkVars, marshalVars, dbVars>>

Lookup(key) ==
  /\ lru # NoLru
  /\ lru' = InodeCache_lookup(lru, key).cache
  /\ lruRet' = [op |-> "lookup", key |-> key,
                hit |-> InodeCache_lookup(lru, key).hit,
                value |-> InodeCache_lookup(lru, key).value]
  /\ lruHist' = IF InodeCache_lookup(lru, key).hit
                THEN [lruHist EXCEPT !.used = Used(lruHist.used, key), !.before = lru]
                ELSE [lruHist EXCEPT !.before = lru]
  /\ UNCHANGED <<writerVars, walkVars, hardlinkVars, symlinkVars, marshalVars, dbVars>>

Drop ==
  /\ lru # NoLru
  /\ lru' = InodeCache_drop(lru)
  /\ lruRet' = [op |-> "drop"]
  /\ lruHist' = [lruHist EXCEPT !.before = lru]
  /\ UNCHANGED <<writerVars, walkVars, hardlinkVars, symlinkVars, marshalVars, dbVars>>

Resize(newSize) ==
  /\ lru # NoLru
  /\ lru' = resize(lru, newSize)
  /\ lruRet' = [op |-> "resize", size |-> newSize]
  /\ lruHist' = [lruHist EXCEPT !.before = lru]
  /\ UNCHANGED <<writerVars, walkVars, hardlinkVars, symlinkVars, marshalVars, dbVars>>

NextLru ==
  \/ \E n \in Capacities : Construct(n)
  \/ \E k \in Keys, v \in Values : Insert(k, v)
  \/ \E k \in Keys : Lookup(k)
  \/ Drop
  \/ \E n \in Capacities : Resize(n)

InitLru == Init /\ catalogs = FlatRepository

SpecLru == InitLru /\ [][NextLru]_vars

----------------------------------------------------------------------------
(* Properties of the cache. *)

Stored(cache) == DOMAIN cache.mCache

\* The stored key whose most recent Insert or Lookup hit is the oldest.
Oldest(cache, used) == Head(SelectSeq(used, LAMBDA x : x \in Stored(cache)))

\* The cache after Inserts of the keys of a sequence, in order.
RECURSIVE InsertSeq(_, _)
InsertSeq(cache, keys) ==
  IF keys = <<>> THEN cache
  ELSE InsertSeq(InodeCache_insert(cache, Head(keys), "A"), Tail(keys))

DistinctKeys(n) ==
  {q \in [1..n -> Keys] : \A i, j \in 1..n : q[i] = q[j] => i = j}

\* C13: Insert of a key that is not in the cache while the cache is full
\* removes exactly one entry, the one whose most recent Insert or Lookup hit is
\* the oldest, and then stores the new key; capacity+1 Inserts of distinct keys
\* into an empty cache leave the first key absent and the others present.
C13_EvictsOldest ==
  lru # NoLru =>
    /\ \A k \in Keys \ Stored(lru), v \in Values :
         Cardinality(Stored(lru)) >= lru.mMaxCacheSize =>
           LET kept == Stored(lru) \ {Oldest(lru, lruHist.used)}
               after == InodeCache_insert(lru, k, v)
           IN  /\ Stored(after) = kept \cup {k}
               /\ after.mCache[k].value = v
               /\ \A j \in kept : after.mCache[j].value = lru.mCache[j].value
    /\ (Stored(lru) = {} /\ lru.mMaxCacheSize < MaxKey) =>
         \A q \in DistinctKeys(lru.mMaxCacheSize + 1) :
           Stored(InsertSeq(lru, q)) = {q[i] : i \in 2..(lru.mMaxCacheSize + 1)}

\* A cache of capacity 2 after Inserts of keys 1, 2 and 3: key 1 is gone.
C13_Witness ==
  /\ lru # NoLru
  /\ lru.mMaxCacheSize = 2
  /\ lruRet = [op |-> "insert", key |-> 3, value |-> "A"]
  /\ lruHist.used = <<1, 2, 3>>
  /\ lruHist.before.mLruList = <<1, 2>>
  /\ Stored(lru) = {2, 3}

\* C14: after any sequence of Insert, Lookup, Drop and Resize calls on a cache
\* constructed with capacity > 0 (Resize arguments > 0), the number of stored
\* entries never exceeds the current capacity.
C14_SizeWithinCapacity ==
  lru # NoLru =>
    /\ Cardinality(Stored(lru)) <= lru.mMaxCacheSize
    /\ getNumberOfEntries(lru) = Cardinality(Stored(lru))
    /\ Len(lru.mLruList) = Cardinality(Stored(lru))

\* A cache that held three entries, shrunk to capacity 1, and filled again.
C14_Witness ==
  /\ lru # NoLru
  /\ lru.mMaxCacheSize = 1
  /\ Cardinality(Stored(lru)) = 1
  /\ Len(lruHist.used) = 3
  /\ lruRet.op = "insert"

\* The list without one key, the order of the others kept.
Without(list, key) == SelectSeq(list, LAMBDA x : x # key)

\* C15: a Lookup that hits makes that key the most-recently-used entry, so it
\* is evicted after every other entry present at that moment; for capacity 2,
\* Insert(1,A); Insert(2,B); Lookup(1); Insert(3,C) leaves keys 1 and 3 present
\* and key 2 absent.
C15_LookupPromotes ==
  lru # NoLru =>
    /\ \A k \in Stored(lru) :
         LET found == InodeCache_lookup(lru, k)
         IN  /\ found.hit
             /\ found.cache.mLruList = Without(lru.mLruList, k) \o <<k>>
             /\ found.cache.mCache = lru.mCache
             /\ \A n \in 1..Cardinality(Stored(lru)) :
                  k \in Stored(resize(found.cache, n))
             /\ \A j \in Keys \ Stored(lru) :
                  Cardinality(Stored(lru)) >= 2 =>
                    k \in Stored(InodeCache_insert(found.cache, j, "A"))
    /\ (Stored(lru) = {} /\ lru.mMaxCacheSize = 2) =>
         LET two == InodeCache_insert(InodeCache_insert(lru, 1, "A"), 2, "B")
             three == InodeCache_insert(InodeCache_lookup(two, 1).cache, 3, "A")
         IN  Stored(three) = {1, 3}

\* Capacity 2, keys 1 and 2 stored in this order, and Lookup(1) has just hit:
\* key 1 is at the back of the list and the next new key takes the place of
\* key 2.
C15_Witness ==
  /\ lru # NoLru
  /\ lru.mMaxCacheSize = 2
  /\ lruRet = [op |-> "lookup", key |-> 1, hit |-> TRUE, value |-> "A"]
  /\ lruHist.before.mLruList = <<1, 2>>
  /\ lru.mLruList = <<2, 1>>
  /\ Stored(InodeCache_insert(lru, 3, "A")) = {1, 3}

\* C16: Insert of a key that is already in the cache replaces its value, makes
\* it the most-recently-used entry, evicts nothing (even when the cache is
\* full) and leaves the number of entries unchanged.
C16_InsertExisting ==
  (lruRet.op = "insert" /\ lruRet.key \in Stored(lruHist.before)) =>
    LET old == lruHist.before
        k == lruRet.key
    IN  /\ Stored(lru) = Stored(old)
        /\ getNumberOfEntries(lru) = getNumberOfEntries(old)
        /\ lru.mCache[k].value = lruRet.value
        /\ \A j \in Stored(old) \ {k} : lru.mCache[j].value = old.mCache[j].value
        /\ lru.mLruList = Without(old.mLruList, k) \o <<k>>
        /\ lru.mMaxCacheSize = old.mMaxCacheSize

\* A full cache of capacity 2 holding key 1 with value A as its oldest entry,
\* after Insert(1, B).
C16_Witness ==
  /\ lruRet = [op |-> "insert", key |-> 1, value |-> "B"]
  /\ lruHist.before.mMaxCacheSize = 2
  /\ lruHist.before.mLruList = <<1, 2>>
  /\ lruHist.before.mCache[1].value = "A"
  /\ lru.mLruList = <<2, 1>>

\* C17: a Lookup(k) issued directly after Insert(k, v) hits and returns v,
\* whether k was new or already present and whether or not the cache was full;
\* a Lookup hit always returns the value of the most recent Insert for its key.
C17_LookupAfterInsert ==
  /\ lruRet.op = "insert" =>
       /\ InodeCache_lookup(lru, lruRet.key).hit
       /\ InodeCache_lookup(lru, lruRet.key).value = lruRet.value
  /\ (lruRet.op = "lookup" /\ lruRet.hit) =>
       lruRet.value = lruHist.inserted[lruRet.key]
  /\ lru # NoLru =>
       \A k \in Stored(lru) :
         InodeCache_lookup(lru, k).value = lruHist.inserted[k]

\* Lookup(1) has hit on a full cache and returned B, the value of the most
\* recent Insert of key 1.
C17_Witness ==
  /\ lruRet = [op |-> "lookup", key |-> 1, hit |-> TRUE, value |-> "B"]
  /\ lruHist.inserted[1] = "B"
  /\ isFull(lruHist.before)
  /\ lruHist.before.mLruList = <<2, 1>>

\* The last n elements of a sequence.
LastN(list, n) == SubSeq(list, Len(list) - n + 1, Len(list))

\* C18: Resize(n) with n smaller than the current number of entries evicts
\* entries in least-recently-used order until exactly n remain, keeping the n
\* most-recently-used entries with their values; with n at least the current
\* number of entries it removes nothing; afterwards the capacity is n.
C18_Resize ==
  lruRet.op = "resize" =>
    LET old == lruHist.before
        n == lruRet.size
        recent == SelectSeq(lruHist.used, LAMBDA x : x \in Stored(old))
    IN  /\ lru.mMaxCacheSize = n
        /\ IF n < Cardinality(Stored(old))
           THEN /\ Cardinality(Stored(lru)) = n
                /\ lru.mLruList = LastN(recent, n)
                /\ Stored(lru) = {recent[i] : i \in (Len(recent) - n + 1)..Len(recent)}
           ELSE /\ Stored(lru) = Stored(old)
                /\ lru.mLruList = old.mLruList
        /\ \A k \in Stored(lru) : lru.mCache[k] = old.mCache[k]
        /\ getNumberOfEntries(lru) = Cardinality(Stored(lru))

\* Three entries, key 1 used last and key 2 first, then Resize(1): the two
\* oldest are gone and key 1 stays.
C18_Witness ==
  /\ lruRet = [op |-> "resize", size |-> 1]
  /\ lruHist.before.mLruList = <<2, 3, 1>>
  /\ lru.mLruList = <<1>>
  /\ lru.mMaxCacheSize = 1

\* The sequences of distinct keys.
KeySeqs == UNION {DistinctKeys(n) : n \in 0..MaxKey}

\* C19: after Drop the cache holds no entries (entry count 0, every Lookup
\* misses), its capacity is unchanged, and subsequent Inserts behave as on a
\* freshly constructed cache of that capacity.
C19_Drop ==
  lruRet.op = "drop" =>
    LET fresh == InodeCache(lruHist.before.mMaxCacheSize)
    IN  /\ getNumberOfEntries(lru) = 0
        /\ Stored(lru) = {}
        /\ \A k \in Keys : ~InodeCache_lookup(lru, k).hit
        /\ lru.mMaxCacheSize = lruHist.before.mMaxCacheSize
        /\ \A q \in KeySeqs :
             /\ InsertSeq(lru, q).mCache = InsertSeq(fresh, q).mCache
             /\ getNumberOfEntries(InsertSeq(lru, q)) =
                  getNumberOfEntries(InsertSeq(fresh, q))

\* A full cache of capacity 2 has just been dropped.
C19_Witness ==
  /\ lruRet.op = "drop"
  /\ lruHist.before.mMaxCacheSize = 2
  /\ Cardinality(Stored(lruHist.before)) = 2
  /\ Stored(lru) = {}

----------------------------------------------------------------------------
(* SqlDirent::ExpandSymlink (catalog_sql.cc).  A string is the sequence of  *)
(* its characters.  The loops of ExpandSymlink run up to and including      *)
(* cEnd = GetChars() + GetLength(), one position past the characters of the *)
(* LinkString; the byte found there is not determined by the code at hand   *)
(* and is an input of the model.                                            *)

MaxLen == 3

kNul == "NUL"

\* What a symlink target is made of: single characters and one reference.
Tokens == {<<"x">>, <<"$">>, <<"(">>, <<")">>, <<"V">>, <<"$", "(", "V", ")">>}

RECURSIVE Flatten(_)
Flatten(tokens) ==
  IF tokens = <<>> THEN <<>> ELSE Head(tokens) \o Flatten(Tail(tokens))

Targets == {Flatten(q) : q \in UNION {[1..n -> Tokens] : n \in 0..MaxLen}}

\* The bytes that can follow the characters of a LinkString in its buffer.
Bytes == {"x", "$", "(", ")", "V", kNul}

EnvNames == {<<"V">>}
EnvValues == {<<"b">>, <<"b", ")">>}

kNull == [null |-> TRUE]

\* getenv(3): the value as a string, or a null pointer.
getenv(env, name) ==
  IF name \in DOMAIN env THEN [chars |-> env[name]] ELSE kNull

\* *c for 0 <= c <= cEnd - GetChars().
CharAt(chars, past, c) == IF c < Len(chars) THEN chars[c + 1] ELSE past

\* The position of the first byte b in c..cEnd, or cEnd + 1 when there is none.
RECURSIVE Find(_, _, _, _)
Find(chars, past, b, c) ==
  IF c > Len(chars) THEN c
  ELSE IF CharAt(chars, past, c) = b THEN c
  ELSE Find(chars, past, b, c + 1)

\* The loop after the label expand_symlink, from position c with the given
\* result so far.
RECURSIVE ExpandLoop(_, _, _, _, _)
ExpandLoop(chars, past, env, c, expanded) ==
  LET cEnd == Len(chars)
  IN  IF c > cEnd THEN expanded
      ELSE IF /\ CharAt(chars, past, c) = "$"
              /\ c < cEnd - 2
              /\ CharAt(chars, past, c + 1) = "("
      THEN LET rpar == Find(chars, past, ")", c + 2)
           IN  IF rpar > cEnd
               THEN \* right parenthesis missing: continue, with ++c
                    ExpandLoop(chars, past, env, c + 3, expanded \o <<"$", "(">>)
               ELSE LET environ_var == SubSeq(chars, c + 3, rpar)
                        environ_value == getenv(env, environ_var)
                    IN  \* c = rpar+1; continue, with ++c
                        ExpandLoop(chars, past, env, rpar + 2,
                                   IF environ_value # kNull
                                   THEN expanded \o environ_value.chars
                                   ELSE expanded)
      ELSE ExpandLoop(chars, past, env, c + 1,
                      Append(expanded, CharAt(chars, past, c)))

\* ExpandSymlink on the characters of raw_symlink, with the byte past them.
ExpandSymlink(chars, past, env) ==
  LET c == Find(chars, past, "$", 0)
  IN  IF c > Len(chars) THEN chars
      ELSE ExpandLoop(chars, past, env, c, <<>>)

\* SqlDirentInsert / SqlDirentUpdate: the symlink column is bound from the
\* characters of entry.symlink_.
WriteSymlink(target) ==
  /\ symlink' = [chars |-> target]
  /\ symlink_' = NoSymlink
  /\ UNCHANGED <<environ, writerVars, walkVars, hardlinkVars, lruVars, marshalVars, dbVars>>

\* The reader's process sets a variable of its environment.
Setenv(name, value) ==
  /\ symlink_ = NoSymlink
  /\ environ' = (name :> value) @@ environ
  /\ UNCHANGED <<symlink, symlink_, writerVars, walkVars, hardlinkVars, lruVars, marshalVars, dbVars>>

\* SqlLookup::GetDirent: symlink_ is assigned the column and expanded.
ReadSymlink ==
  /\ symlink # NoSymlink
  /\ \E past \in Bytes :
       symlink_' = [chars |-> ExpandSymlink(symlink.chars, past, environ)]
  /\ UNCHANGED <<symlink, environ, writerVars, walkVars, hardlinkVars, lruVars, marshalVars, dbVars>>

NextSymlink ==
  \/ \E target \in Targets : WriteSymlink(target)
  \/ \E name \in EnvNames, value \in EnvValues : Setenv(name, value)
  \/ ReadSymlink

InitSymlink == Init /\ catalogs = FlatRepository

SpecSymlink == InitSymlink /\ [][NextSymlink]_vars

\* The target with every complete $(VAR) replaced by the value of VAR (nothing
\* when VAR is unset) and every other character kept, from position i on.
RECURSIVE Substituted(_, _, _)
Substituted(chars, env, i) ==
  IF i > Len(chars) THEN <<>>
  ELSE IF /\ chars[i] = "$"
          /\ i + 1 <= Len(chars)
          /\ chars[i + 1] = "("
          /\ \E j \in (i + 2)..Len(chars) : chars[j] = ")"
  THEN LET j == CHOOSE j \in (i + 2)..Len(chars) :
                  /\ chars[j] = ")"
                  /\ \A k \in (i + 2)..(j - 1) : chars[k] # ")"
           value == getenv(env, SubSeq(chars, i + 2, j - 1))
       IN  (IF value # kNull THEN value.chars ELSE <<>>) \o Substituted(chars, env, j + 1)
  ELSE <<chars[i]>> \o Substituted(chars, env, i + 1)

\* C20: when an entry is read out, the returned symlink target equals the
\* stored target with every complete $(VAR) substring replaced by the value of
\* environment variable VAR (the empty string when VAR is unset), and with
\* every other character, before, between and after the substitutions, kept
\* unchanged and in order, with no extra characters added.
C20_ExpandSymlink ==
  symlink_ # NoSymlink => symlink_.chars = Substituted(symlink.chars, environ, 1)

\* The positions of the target where a "$(" starts that no ")" follows.
Unterminated(chars) ==
  {i \in 1..(Len(chars) - 1) :
     /\ chars[i] = "$"
     /\ chars[i + 1] = "("
     /\ \A j \in (i + 2)..Len(chars) : chars[j] # ")"}

\* The last n characters of a string, or the whole string when it is shorter.
Suffix(chars, n) ==
  IF n >= Len(chars) THEN chars
  ELSE SubSeq(chars, Len(chars) - n + 1, Len(chars))

\* C21: a symlink target that contains "$(" with no closing ")" anywhere
\* after it is read out with that "$(" and every character following it
\* preserved verbatim: the target read out ends with the stored target from
\* that "$(" on, nothing dropped and nothing added.
C21_Unterminated ==
  symlink_ # NoSymlink =>
    \A i \in Unterminated(symlink.chars) :
      Suffix(symlink_.chars, Len(symlink.chars) - i + 1)
        = SubSeq(symlink.chars, i, Len(symlink.chars))

----------------------------------------------------------------------------
(* One DirectoryEntry with all its attributes, bound to the insert          *)
(* statement (SqlDirentWrite::BindDirentFields) and read out of the stored  *)
(* row again (SqlLookup::GetDirent).                                        *)

Uids == {0, 1000}
Sizes == {0, 5}
Checksums == {"sha1:00", "sha1:a1"}
Links == {<<"x">>, <<"$", "(", "V", ")">>}
Schemas == {SchemaVersion(1, 0), SchemaVersion(2, 0)}

\* The path of the entry.
DirentPath == <<"a", "x">>

\* The hardlinks values of the entries: an ordinary file, a group of two.
HardlinkInputs == {U64Zero, set_hardlinks(U32(1), U32(2))}

\* A DirectoryEntry with the attributes a crawler fills in.
Dirent(name, mode, mtime, uid, gid, size, checksum, link) ==
  CrawlerEntry(name, mode, mtime)
    @@ [uid_ |-> uid, gid_ |-> gid, size_ |-> size, checksum_ |-> checksum,
        symlink_ |-> link]

\* The entries that are written: regular files (alone or in a hardlink group,
\* with the packed hardlinks value in inode_ as the manager puts it),
\* symlinks, and directories with at most one of the nested-catalog markers.
DirentInputs ==
  {[Dirent("x", "reg", mtime, uid, gid, size, checksum, <<>>)
      EXCEPT !.hardlinks_ = hardlinks, !.inode_ = hardlinks] :
     mtime \in {0, 1}, uid \in Uids, gid \in Uids, size \in Sizes,
     checksum \in Checksums, hardlinks \in HardlinkInputs}
  \cup
  {Dirent("x", "lnk", 0, uid, 0, size, "sha1:00", link) :
     uid \in Uids, size \in Sizes, link \in Links}
  \cup
  {[Dirent("x", "dir", 0, uid, 0, 0, "sha1:00", <<>>)
      EXCEPT !.is_nested_catalog_root_ = (nested = "root"),
             !.is_nested_catalog_mountpoint_ = (nested = "mountpoint")] :
     uid \in Uids, nested \in {"none", "root", "mountpoint"}}

\* DirectoryEntry::size(): the length of the target for a symlink.
size(entry) == IF IsLink(entry) THEN Len(entry.symlink_) ELSE entry.size_

\* The columns hash, size and symlink as BindDirentFields binds them.
BindAttributes(entry) ==
  [hash |-> entry.checksum_, size |-> entry.size_, symlink |-> entry.symlink_]

\* strlen(3) on a text column: the characters before the first NUL.
RECURSIVE strlen(_)
strlen(chars) ==
  IF chars = <<>> \/ Head(chars) = kNul THEN 0 ELSE 1 + strlen(Tail(chars))

\* The attributes GetDirent reads besides those of the row model: size,
\* content hash and the expanded symlink; uid_, gid_ stay as the constructor
\* of DirectoryEntry set them.
RetrieveAttributes(row, past, env) ==
  [uid_ |-> 0, gid_ |-> 0,
   parent_inode_ |-> kInvalidInode,
   size_ |-> row.size,
   checksum_ |-> row.hash,
   symlink_ |-> ExpandSymlink(SubSeq(row.symlink, 1, strlen(row.symlink)),
                              past, env)]

\* SqlDirentInsert: BindPathHash, BindParentPathHash, BindDirent, Execute.
BindDirent(entry) ==
  /\ dirent' = entry
  /\ columns' = MakeRow(Md5(DirentPath), Md5(GetParentPath(DirentPath)), entry)
                  @@ BindAttributes(entry)
  /\ dirent_' = NoDirent
  /\ UNCHANGED <<writerVars, walkVars, hardlinkVars, lruVars, symlinkVars, dbVars>>

\* A lookup of the row in a catalog of the given schema: GetDirent.
ReadDirent(schema) ==
  /\ columns # NoDirent
  /\ \E past \in Bytes :
       dirent_' = [entry |-> GetDirent(columns, schema)
                               @@ RetrieveAttributes(columns, past, environ),
                   schema |-> schema]
  /\ UNCHANGED <<dirent, columns, writerVars, walkVars, hardlinkVars, lruVars, symlinkVars, dbVars>>

NextDirent ==
  \/ \E entry \in DirentInputs : BindDirent(entry)
  \/ \E name \in EnvNames, value \in EnvValues : Setenv(name, value)
  \/ \E schema \in Schemas : ReadDirent(schema)

InitDirent == Init /\ catalogs = FlatRepository

SpecDirent == InitDirent /\ [][NextDirent]_vars

\* C22: after AddFile(e, p) succeeds, Lookup(p + "/" + e.name) returns an
\* entry equal to e in name, symlink target, mode, uid, gid, size, mtime,
\* content hash, link-count, hardlink group id and nested flags (the catalog
\* of the writer has schema 2.0); only the inode may differ.
C22_RoundTrip ==
  (dirent_ # NoDirent /\ dirent_.schema = SchemaVersion(2, 0)) =>
    LET e == dirent
        r == dirent_.entry
    IN  /\ r.name = e.name
        /\ r.symlink_ = e.symlink_
        /\ r.mode = e.mode
        /\ r.uid_ = e.uid_
        /\ r.gid_ = e.gid_
        /\ size(r) = size(e)
        /\ r.mtime = e.mtime
        /\ r.checksum_ = e.checksum_
        /\ r.linkcount_ = Hardlinks2Linkcount(e.hardlinks_)
        /\ r.inode_.hardlink_group = Hardlinks2HardlinkGroup(e.hardlinks_)
        /\ r.is_nested_catalog_root_ = e.is_nested_catalog_root_
        /\ r.is_nested_catalog_mountpoint_ = e.is_nested_catalog_mountpoint_

\* What C22 says, without uid, gid and the symlink target.
C22_StoredColumns ==
  (dirent_ # NoDirent /\ dirent_.schema = SchemaVersion(2, 0)) =>
    LET e == dirent
        r == dirent_.entry
    IN  /\ r.name = e.name
        /\ r.mode = e.mode
        /\ ~IsLink(e) => size(r) = size(e)
        /\ r.mtime = e.mtime
        /\ r.checksum_ = e.checksum_
        /\ r.linkcount_ = Hardlinks2Linkcount(e.hardlinks_)
        /\ r.inode_.hardlink_group = Hardlinks2HardlinkGroup(e.hardlinks_)
        /\ r.is_nested_catalog_root_ = e.is_nested_catalog_root_
        /\ r.is_nested_catalog_mountpoint_ = e.is_nested_catalog_mountpoint_

----------------------------------------------------------------------------
(* Entries added and touched, nested catalogs created and removed. *)

\* The crawler restricted to AddFile, AddDirectory, TouchEntry,
\* CreateNestedCatalog and RemoveNestedCatalog.
EntryRequests ==
  {req \in Requests : req.op \in {"AddFile", "AddDirectory", "TouchEntry",
                                  "CreateNestedCatalog", "RemoveNestedCatalog"}}

NextEntries ==
  \/ \E t \in Workers, req \in EntryRequests : Begin(t, req)
  \/ \E t \in Workers : MountStep(t)
  \/ \E t \in Workers : AddFileStep(t)
  \/ \E t \in Workers : AddDirectoryStep(t)
  \/ \E t \in Workers : TouchEntryStep(t)
  \/ \E t \in Workers : CreateNestedCatalogStep(t)
  \/ \E t \in Workers : RemoveNestedCatalogStep(t)

SpecEntries == Init /\ [][NextEntries]_vars

\* The entries a crawler hands to AddFile and AddDirectory for a path.
AddedEntries(req) ==
  {CrawlerEntry(GetFileName(req.path), mode, mtime) :
     mode \in (IF req.op = "AddFile" THEN {"reg", "lnk"} ELSE {"dir"}),
     mtime \in {0, 1}}

OtherRows(rows, path) == {r \in rows : r.md5path # Md5(path)}

----------------------------------------------------------------------------
(* catalog::Database: the file of one catalog, Database::Create on it and   *)
(* the handle the constructor of Database opens on it.                      *)

\* The value of properties.schema read as a double, in tenths; text that is
\* no number reads as 0.0.
RetrieveDouble(text) ==
  CASE text = "1.0" -> SchemaVersion(1, 0)
    [] text = "2.0" -> SchemaVersion(2, 0)
    [] text = "2.1" -> SchemaVersion(2, 1)
    [] text = "3.0" -> SchemaVersion(3, 0)
    [] OTHER -> SchemaVersion(0, 0)

OpenModes == {"kOpenReadOnly", "kOpenReadWrite"}

\* What open(2) and platform_readahead give for the read-ahead.
Readaheads == {"ok", "open fails", "readahead fails"}

\* The constructor of Database that goes on after a failed read-ahead.
Database_IgnoreReadahead(found, open_mode, opened, readahead) ==
  LET constructed == [ready_ |-> FALSE,
                      schema_version_ |-> SchemaVersion(0, 0),
                      sqlite_db_ |-> "NULL",
                      read_write_ |-> (open_mode = "kOpenReadWrite")]
  IN  IF found = NoFile \/ ~opened
      THEN [constructed EXCEPT !.sqlite_db_ = "failed"]
      ELSE [constructed EXCEPT
              !.sqlite_db_ = "open",
              !.schema_version_ =
                 IF "schema" \in DOMAIN found.properties
                 THEN RetrieveDouble(found.properties["schema"])
                 ELSE SchemaVersion(1, 0),
              !.ready_ = TRUE]

\* Database::Database(filename, open_mode) on what is found at the path:
\* opened says whether sqlite3_open_v2 succeeds on a file that is there (it
\* does not create one), readahead how the read-ahead goes.
Database(found, open_mode, opened, readahead) ==
  LET constructed == [ready_ |-> FALSE,
                      schema_version_ |-> SchemaVersion(0, 0),
                      sqlite_db_ |-> "NULL",
                      read_write_ |-> (open_mode = "kOpenReadWrite")]
  IN  IF found = NoFile \/ ~opened
      THEN [constructed EXCEPT !.sqlite_db_ = "failed"]
      ELSE IF readahead # "ok"
      THEN constructed
      ELSE [constructed EXCEPT
              !.sqlite_db_ = "open",
              !.schema_version_ =
                 IF "schema" \in DOMAIN found.properties
                 THEN RetrieveDouble(found.properties["schema"])
                 ELSE SchemaVersion(1, 0),
              !.ready_ = TRUE]

\* The root entries and root paths Create is called with.
RootPaths == {Root, <<"a">>}
RootEntry(root_path, mtime) ==
  [CrawlerEntry(IF root_path = Root THEN "" ELSE GetFileName(root_path), "dir", mtime)
     EXCEPT !.is_nested_catalog_root_ = (root_path # Root)]

\* Catalog files that earlier sessions and other releases left behind: one of
\* schema 1.0 without a schema row, one that says 1.0, a root catalog and a
\* nested catalog of schema 2.0 after some commits, and one of a later schema.
CatalogFiles ==
  LET root == DatabaseCreate(NoFile, RootEntry(Root, 0), Root)
      nestedAtA == DatabaseCreate(NoFile, RootEntry(<<"a">>, 0), <<"a">>)
      a == MakeRow(Md5(<<"a">>), Md5(Root), DirEntry(<<"a">>))
  IN  {[root EXCEPT !.properties = ("revision" :> "1")],
       [root EXCEPT !.properties = ("schema" :> "1.0") @@ ("revision" :> "1")],
       [root EXCEPT !.rows = @ \cup {a}, !.properties["revision"] = "3"],
       [nestedAtA EXCEPT !.properties["revision"] = "2"],
       [root EXCEPT !.properties["schema"] = "3.0"]}

\* A catalog file is put at the path, or the file there is removed.
PutFile(f) ==
  /\ db = NoDb
  /\ file' = f
  /\ dbCall' = NoDbCall
  /\ UNCHANGED <<db, writerVars, walkVars, hardlinkVars, lruVars, symlinkVars, marshalVars>>

\* Database::Create(filename, root_entry, root_path); opened says whether
\* sqlite3_open_v2 succeeds.
Create(root_entry, root_path, opened) ==
  /\ db = NoDb
  /\ file' = IF opened THEN DatabaseCreate(file, root_entry, root_path) ELSE file
  /\ dbCall' = [op |-> "Create", found |-> file, root_entry |-> root_entry,
                root_path |-> root_path, retval |-> opened]
  /\ UNCHANGED <<db, writerVars, walkVars, hardlinkVars, lruVars, symlinkVars, marshalVars>>

\* new Database(filename, open_mode)
Open(open_mode, opened, readahead) ==
  /\ db = NoDb
  /\ db' = Database(file, open_mode, opened, readahead)
  /\ dbCall' = [op |-> "Open", found |-> file, opened |-> opened,
                readahead |-> readahead]
  /\ UNCHANGED <<file, writerVars, walkVars, hardlinkVars, lruVars, symlinkVars, marshalVars>>

\* Database::~Database
Close ==
  /\ db # NoDb
  /\ db' = NoDb
  /\ dbCall' = NoDbCall
  /\ UNCHANGED <<file, writerVars, walkVars, hardlinkVars, lruVars, symlinkVars, marshalVars>>

NextDb ==
  \/ \E f \in CatalogFiles \cup {NoFile} : PutFile(f)
  \/ \E root_path \in RootPaths, mtime \in {0, 1}, opened \in BOOLEAN :
       Create(RootEntry(root_path, mtime), root_path, opened)
  \/ \E open_mode \in OpenModes, opened \in BOOLEAN, readahead \in Readaheads :
       Open(open_mode, opened, readahead)
  \/ Close

InitDb == Init /\ catalogs = FlatRepository

SpecDb == InitDb /\ [][NextDb]_vars

\* The row Create inserts for the root entry.
RootRow(root_entry, root_path) ==
  MakeRow(Md5(root_path),
          IF root_path = Root THEN Md5Null ELSE Md5(GetParentPath(root_path)),
          root_entry)

\* C25, as stated: after Database::Create(path, root_entry, root_prefix)
\* returns success, whether or not a catalog file already existed at path, the
\* catalog relation holds exactly one row (root_entry keyed by
\* MD5(root_prefix), with an all-zero parent key when root_prefix is empty and
\* MD5 of the parent path otherwise), properties.schema is 2.0,
\* properties.revision is 0, and properties.root_prefix is present if and only
\* if root_prefix is non-empty.
C25_CreateAnyFile ==
  (dbCall.op = "Create" /\ dbCall.retval) =>
    /\ file.rows = {RootRow(dbCall.root_entry, dbCall.root_path)}
    /\ file.properties["schema"] = "2.0"
    /\ file.properties["revision"] = "0"
    /\ ("root_prefix" \in DOMAIN file.properties) <=> (dbCall.root_path # Root)

\* C25, amended: when no file existed at path the above holds; on an
\* existing catalog file Create keeps the rows (the root entry is inserted
\* only if no row has its key), the nested catalogs, the revision and, for an
\* empty root_prefix, the recorded root_prefix; it sets schema to 2.0 and
\* records a non-empty root_prefix.
C25_Create ==
  (dbCall.op = "Create" /\ dbCall.retval) =>
    LET found == dbCall.found
        root_row == RootRow(dbCall.root_entry, dbCall.root_path)
    IN  /\ file.properties["schema"] = "2.0"
        /\ dbCall.root_path # Root =>
             file.properties["root_prefix"] = PathString(dbCall.root_path)
        /\ IF found = NoFile
           THEN /\ file.rows = {root_row}
                /\ file.nested = {}
                /\ file.properties["revision"] = "0"
                /\ ("root_prefix" \in DOMAIN file.properties)
                     <=> (dbCall.root_path # Root)
           ELSE /\ file.rows = IF HasRow(found.rows, root_row.md5path)
                               THEN found.rows
                               ELSE found.rows \cup {root_row}
                /\ file.nested = found.nested
                /\ file.properties["revision"] =
                     IF "revision" \in DOMAIN found.properties
                     THEN found.properties["revision"] ELSE "0"
                /\ dbCall.root_path = Root =>
                     /\ ("root_prefix" \in DOMAIN file.properties)
                          <=> ("root_prefix" \in DOMAIN found.properties)
                     /\ "root_prefix" \in DOMAIN found.properties =>
                          file.properties["root_prefix"]
                            = found.properties["root_prefix"]

\* Create has returned success on a catalog file of revision 3 with two rows.
C25_Witness ==
  /\ dbCall.op = "Create"
  /\ dbCall.retval
  /\ dbCall.found # NoFile
  /\ Cardinality(dbCall.found.rows) = 2
  /\ dbCall.found.properties["revision"] = "3"

\* C26: opening a catalog database yields either a ready handle or a handle
\* that is not ready; the handle is not ready whenever the file cannot be
\* opened or the read-ahead on it fails, and whenever the handle is ready its
\* schema version equals the value of the schema row of properties, or 1.0
\* when that row is absent.
C26_Open ==
  dbCall.op = "Open" =>
    /\ db.ready_ \in BOOLEAN
    /\ (dbCall.found = NoFile \/ ~dbCall.opened \/ dbCall.readahead # "ok")
         => ~db.ready_
    /\ db.ready_ =>
         /\ file # NoFile
         /\ db.schema_version_ =
              IF "schema" \in DOMAIN file.properties
              THEN RetrieveDouble(file.properties["schema"])
              ELSE SchemaVersion(1, 0)

\* A handle that is ready on a catalog file without a schema row.
C26_Witness ==
  /\ dbCall.op = "Open"
  /\ db.ready_
  /\ "schema" \notin DOMAIN file.properties
  /\ db.schema_version_ = SchemaVersion(1, 0)

\* C27: opening a catalog whose recorded schema version is newer than the
\* supported version 2.0 does not yield a ready handle (the failure is
\* surfaced as SchemaMismatch).
C27_SchemaMismatch ==
  (/\ dbCall.op = "Open"
   /\ file # NoFile
   /\ "schema" \in DOMAIN file.properties
   /\ RetrieveDouble(file.properties["schema"]) > SchemaVersion(2, 0))
    => ~db.ready_

----------------------------------------------------------------------------
(* Reading a catalog of an older schema. *)

\* C28: an entry read out of a catalog whose schema version is below 2.0 has
\* link-count 1 and an inode computed with hardlink group 0, whatever the
\* inode/hardlinks column of its row holds.
C28_OldSchema ==
  (dirent_ # NoDirent /\ dirent_.schema < SchemaVersion(2, 0)) =>
    /\ dirent_.entry.linkcount_ = U32(1)
    /\ dirent_.entry.inode_ = GetMangledInode(columns.md5path, U32(0))

\* The row of a file in hardlink group 1 with link-count 2, read out of a
\* catalog of schema 1.0.
C28_Witness ==
  /\ dirent_ # NoDirent
  /\ dirent_.schema = SchemaVersion(1, 0)
  /\ columns.inode = set_hardlinks(U32(1), U32(2))

----------------------------------------------------------------------------
(* The flags stored with a row. *)

\* The combinations of flags of a directory, a regular file and a symlink.
AllowedFlags(mode) ==
  CASE mode = "dir" -> {{kFlagDir}, {kFlagDir, kFlagDirNestedRoot},
                        {kFlagDir, kFlagDirNestedMountpoint}}
    [] mode = "lnk" -> {{kFlagFile, kFlagLink}}
    [] OTHER -> {{kFlagFile}}

\* Entries added and touched, nested catalogs created and removed, and
\* entries of every kind (one of each) bound to the insert statement.
FlagInputs ==
  {entry \in DirentInputs :
     /\ entry.mtime = 0 /\ entry.uid_ = 0 /\ entry.gid_ = 0
     /\ entry.size_ = 0 /\ entry.checksum_ = "sha1:00"}

NextFlags ==
  \/ NextEntries
  \/ \E entry \in FlagInputs : BindDirent(entry)

SpecFlags == Init /\ [][NextFlags]_vars

----------------------------------------------------------------------------
(* The link-count statement executed with any delta. *)

\* The deltas bound to the statement (BindDelta takes an int).
Deltas == {-1, 1, 2}

\* The raw hardlinks value of the row at path_hash once the statement has
\* been executed for the row at selected_hash with the given delta.
IncLinkcount(rows, selected_hash, delta, path_hash) ==
  RowAt(SqlIncLinkcount(rows, selected_hash, delta), path_hash).inode

\* C30: executing the link-count increment for a row of a hardlink group with
\* delta d changes the link-count of every row of the group to the old
\* link-count + d and keeps their group id, for positive as well as negative
\* d; the only exception is d = -1 on a group whose link-count is 2, which
\* sets the raw hardlinks value of the group's rows to 0.
C30_IncLinkcount ==
  \A c \in DirPaths :
    LET rows == catalogs[c].rows
    IN  \A r \in rows, d \in Deltas :
          LET g == Hardlinks2HardlinkGroup(r.inode)
          IN  g # U32(0) =>
                \A m \in GroupRows(rows, g) :
                  LET old == Hardlinks2Linkcount(m.inode)
                      new == IncLinkcount(rows, r.md5path, d, m.md5path)
                  IN  IF d = -1 /\ old = U32(2) THEN new = U64Zero
                      ELSE new = set_hardlinks(g, AddU32(old, d))

\* What the statement does to the rows of a group whose rows number their
\* link-count: a link-count of 2 is cleared to the raw value 0 whatever the
\* delta, any other link-count has the delta added.
C30_Statement ==
  C10_GroupCount =>
    \A c \in DirPaths :
      LET rows == catalogs[c].rows
      IN  \A r \in rows, d \in Deltas :
            LET g == Hardlinks2HardlinkGroup(r.inode)
            IN  g # U32(0) =>
                  \A m \in GroupRows(rows, g) :
                    LET old == Hardlinks2Linkcount(m.inode)
                        new == IncLinkcount(rows, r.md5path, d, m.md5path)
                    IN  IF old = U32(2) THEN new = U64Zero
                        ELSE new = set_hardlinks(g, AddU32(old, d))

\* The same claim for the positive deltas on a group of link-count 2 alone.
C30_IncrementOfTwo ==
  C10_GroupCount =>
    \A c \in DirPaths :
      LET rows == catalogs[c].rows
      IN  \A r \in rows, d \in {1} :
            (Hardlinks2HardlinkGroup(r.inode) # U32(0)
               /\ Hardlinks2Linkcount(r.inode) = U32(2)) =>
              IncLinkcount(rows, r.md5path, d, r.md5path)
                = set_hardlinks(Hardlinks2HardlinkGroup(r.inode), U32(3))

----------------------------------------------------------------------------
(* The rows the link-count statement leaves alone. *)

\* The rows outside the hardlink group of row r: every other row when r is
\* an ordinary file (group 0), the rows of other group ids otherwise.
OutsideGroup(rows, r) ==
  LET g == Hardlinks2HardlinkGroup(r.inode)
  IN  {m \in rows : m.md5path # r.md5path
                      /\ (g = U32(0) \/ Hardlinks2HardlinkGroup(m.inode) # g)}

\* C31: the link-count increment changes no row outside the hardlink group of
\* the row keyed by the given path hash; when that row is an ordinary file
\* (raw hardlinks value 0), the hardlinks value of every other ordinary file
\* of the catalog is unchanged.
C31_Frame ==
  \A c \in DirPaths :
    LET rows == catalogs[c].rows
    IN  \A r \in rows, d \in Deltas :
          \A m \in OutsideGroup(rows, r) :
            /\ m \in SqlIncLinkcount(rows, r.md5path, d)
            /\ IncLinkcount(rows, r.md5path, d, m.md5path) = m.inode

\* The same for the rows of regular files once two ordinary files have been
\* added to a catalog.
C31_OrdinaryFiles ==
  \A c \in DirPaths :
    LET rows == catalogs[c].rows
    IN  \A r, m \in {f \in rows : f.mode = "reg" /\ f.inode = U64Zero} :
          m.md5path # r.md5path =>
            IncLinkcount(rows, r.md5path, -1, m.md5path) = U64Zero

\* What the statement leaves alone: the rows whose raw hardlinks value
\* differs from that of the row keyed by the path hash.
C31_Statement ==
  \A c \in DirPaths :
    LET rows == catalogs[c].rows
    IN  \A r \in rows, d \in Deltas :
          \A m \in {n \in rows : n.inode # r.inode} :
            m \in SqlIncLinkcount(rows, r.md5path, d)

----------------------------------------------------------------------------
(* The hardlinks field of a DirectoryEntry set and read. *)

\* The 32-bit values passed as group id and as link-count.
Words32 ==
  {U32(0), U32(1), U32(2), U32(3), U32(Limb - 1), U32(Limb), U32(Limb + 1),
   <<1, Limb - 1>>, <<Limb \div 2, 0>>, <<Limb - 1, 0>>, <<Limb - 1, Limb - 1>>}

\* DirectoryEntry::linkcount() and DirectoryEntry::hardlink_group().
Linkcount(e) == Hardlinks2Linkcount(e.hardlinks_)
HardlinkGroup(e) == Hardlinks2HardlinkGroup(e.hardlinks_)

\* DirectoryEntry(): hardlinks_ is 0.
NewDirectoryEntry ==
  /\ hardlinked' = [entry |-> CrawlerEntry("x", "reg", 0), op |-> "DirectoryEntry"]
  /\ UNCHANGED <<writerVars, walkVars, lruVars, symlinkVars, marshalVars, dbVars>>

\* set_hardlinks(g, n) on the entry.
SetHardlinks(g, n) ==
  /\ hardlinked # NoDirent
  /\ hardlinked' = [entry |-> [hardlinked.entry EXCEPT
                                 !.hardlinks_ = set_hardlinks(g, n)],
                     op |-> "set_hardlinks", g |-> g, n |-> n]
  /\ UNCHANGED <<writerVars, walkVars, lruVars, symlinkVars, marshalVars, dbVars>>

NextHardlinks ==
  \/ NewDirectoryEntry
  \/ \E g \in Words32, n \in Words32 : SetHardlinks(g, n)

SpecHardlinks == Init /\ [][NextHardlinks]_vars

\* C32: an entry after set_hardlinks(g, n) with n >= 1 reports
\* hardlink_group() = g and linkcount() = n (group 0 with link-count 1 reads
\* as group 0, link-count 1); an entry whose raw hardlinks value is 0 reports
\* group id 0 and link-count 1.
C32_Hardlinks ==
  /\ (hardlinked # NoDirent /\ hardlinked.op = "set_hardlinks"
       /\ hardlinked.n # U32(0)) =>
         /\ HardlinkGroup(hardlinked.entry) = hardlinked.g
         /\ Linkcount(hardlinked.entry) = hardlinked.n
  /\ (hardlinked # NoDirent /\ hardlinked.entry.hardlinks_ = U64Zero) =>
         /\ HardlinkGroup(hardlinked.entry) = U32(0)
         /\ Linkcount(hardlinked.entry) = U32(1)

\* Group id 0x00010000 packed with link-count 0xFFFFFFFF.
C32_Witness ==
  /\ hardlinked # NoDirent
  /\ hardlinked.op = "set_hardlinks"
  /\ hardlinked.g = U32(Limb)
  /\ hardlinked.n = <<Limb - 1, Limb - 1>>
  /\ hardlinked.entry.hardlinks_ = <<1, 0, Limb - 1, Limb - 1>>

----------------------------------------------------------------------------
(* Symlink targets without a reference. *)

\* The positions of the target where a "$(" starts.
References(chars) ==
  {i \in 1..(Len(chars) - 1) : chars[i] = "$" /\ chars[i + 1] = "("}

\* C33: an entry whose stored symlink target contains no "$(" (no "$" at all,
\* or a "$" that no "(" follows) is read out with the target unchanged,
\* character for character and with the same length.
C33_NoReference ==
  (symlink_ # NoSymlink /\ References(symlink.chars) = {}) =>
    symlink_.chars = symlink.chars

\* What is read out of a target without any "$": the target, or "$" alone
\* when the byte past its characters is a "$".
C33_NoDollar ==
  (symlink_ # NoSymlink /\ \A i \in 1..Len(symlink.chars) : symlink.chars[i] # "$") =>
    symlink_.chars \in {symlink.chars, <<"$">>}

\* The same claim for the target "x$x" alone.
C33_DollarInside ==
  (symlink_ # NoSymlink /\ symlink.chars = <<"x", "$", "x">>) =>
    symlink_.chars = symlink.chars

----------------------------------------------------------------------------
(* The counter, the map and the list of the LRU cache. *)

\* C34: after any sequence of insert, lookup, drop and resize calls the entry
\* counter of the cache equals the number of keys of its map, its list holds
\* exactly the keys of the map, each once, and every map entry points at the
\* list node that holds its own key.
C34_MapAndList ==
  lru # NoLru =>
    /\ lru.mCurrentCacheSize = Cardinality(DOMAIN lru.mCache)
    /\ Range(lru.mLruList) = DOMAIN lru.mCache
    /\ \A i, j \in 1..Len(lru.mLruList) :
         lru.mLruList[i] = lru.mLruList[j] => i = j
    /\ \A key \in DOMAIN lru.mCache : lru.mCache[key].listEntry = key

\* A cache of capacity 2 holding two entries after a third was evicted and
\* the older of the two was looked up.
C34_Witness ==
  /\ lru # NoLru
  /\ lru.mMaxCacheSize = 2
  /\ Len(lru.mLruList) = 2
  /\ Len(lruHist.used) = 3
  /\ lruRet.op = "lookup"
  /\ lruRet.hit
  /\ lru.mLruList # lruHist.before.mLruList

----------------------------------------------------------------------------
(* The assertions of the LRU cache.  A content node is lonely when it is not *)
(* linked into the list; the list head is lonely when the list is empty.     *)

\* ListEntry::isLonely for the content node of a key.
isLonely(list, entry) == entry \notin Range(list)

\* ListEntryHead::isEmpty and LruCache::isEmpty.
isEmptyList(list) == list = <<>>
isEmpty(cache) == cache.mCurrentCacheSize = 0

\* The assertions of insertAsPredecessor: lonely before, not lonely after.
insertAsPredecessor_asserts(list, entry) ==
  /\ isLonely(list, entry)
  /\ ~isLonely(push_back(list, entry), entry)

\* The assertions of removeFromList: not lonely before, lonely after.
removeFromList_asserts(list, entry) ==
  /\ ~isLonely(list, entry)
  /\ isLonely(removeFromList(list, entry), entry)

\* moveToBack: its own assertion, then removeFromList and insertAsPredecessor.
moveToBack_asserts(list, entry) ==
  /\ ~isLonely(list, entry)
  /\ removeFromList_asserts(list, entry)
  /\ insertAsPredecessor_asserts(removeFromList(list, entry), entry)

\* pop_front: the list is not empty; pop removes the front node.
pop_front_asserts(list) ==
  /\ ~isEmptyList(list)
  /\ removeFromList_asserts(list, getFront(list))

insertNewEntry_asserts(cache, key) ==
  /\ ~isFull(cache)
  /\ insertAsPredecessor_asserts(cache.mLruList, key)

deleteOldestEntry_asserts(cache) ==
  /\ ~isEmpty(cache)
  /\ pop_front_asserts(cache.mLruList)

\* The assertions met by insert(key, value).
insert_asserts(cache, key, value) ==
  IF lookupCache(cache, key)
  THEN LET entry == [cache.mCache[key] EXCEPT !.value = value]
       IN  moveToBack_asserts(updateExistingEntry(cache, key, entry).mLruList,
                              entry.listEntry)
  ELSE IF isFull(cache)
  THEN /\ deleteOldestEntry_asserts(cache)
       /\ insertNewEntry_asserts(deleteOldestEntry(cache), key)
  ELSE insertNewEntry_asserts(cache, key)

\* The assertions met by lookup(key).
lookup_asserts(cache, key) ==
  lookupCache(cache, key) =>
    moveToBack_asserts(cache.mLruList, cache.mCache[key].listEntry)

\* The assertions met by resize(newSize).
RECURSIVE resize_asserts(_, _)
resize_asserts(cache, newSize) ==
  /\ newSize > 0
  /\ cache.mCurrentCacheSize > newSize =>
       /\ deleteOldestEntry_asserts(cache)
       /\ resize_asserts(deleteOldestEntry(cache), newSize)

\* C35: on a cache constructed with a capacity > 0 and resized only to sizes
\* > 0, no assertion of the cache fails in any insert, lookup or resize made
\* after any sequence of insert, lookup, drop and resize: the lonely and
\* not-lonely checks on list nodes, not full before a new entry is inserted,
\* not empty before the oldest entry is deleted or the list is popped (drop
\* contains no assertion).
C35_Assertions ==
  lru # NoLru =>
    /\ \A key \in Keys, value \in Values : insert_asserts(lru, key, value)
    /\ \A key \in Keys : lookup_asserts(lru, key)
    /\ \A newSize \in Capacities : resize_asserts(lru, newSize)

\* A full cache of capacity 2 whose second entry was just inserted: a
\* further insert of the key it does not hold evicts, a lookup hits, a resize
\* to 1 deletes the oldest entry.
C35_Witness ==
  /\ lru # NoLru
  /\ lru.mMaxCacheSize = 2
  /\ isFull(lru)
  /\ lruRet.op = "insert"
  /\ lruHist.before.mCurrentCacheSize = 1
  /\ \E key \in Keys : ~lookupCache(lru, key)

----------------------------------------------------------------------------
(* RecursionEngine (cvmfs_sync_recursion.h).  A path is the sequence of its *)
(* names; the trace of a walk is the sequence of the calls of Notify, each  *)
(* delivered to the delegate when its callback is set.  The relative path   *)
(* handed to the delegate (GetRelativePath) is not part of the model.       *)

Callbacks ==
  {"enteringDirectory", "leavingDirectory", "foundDirectory",
   "foundDirectoryAfterRecursion", "foundRegularFile", "foundSymlink"}

\* One entry as portableReaddir returns it.
PortableDirent(d_name, d_type) == [d_name |-> d_name, d_type |-> d_type]

\* The directories of the file system that is walked and what readdir
\* returns for each, in order.
Tree ==
  (<<"r">> :> <<PortableDirent(".", "DT_DIR"), PortableDirent("..", "DT_DIR"),
                PortableDirent("d", "DT_DIR"), PortableDirent("f", "DT_REG"),
                PortableDirent("l", "DT_LNK"), PortableDirent("s", "DT_DIR"),
                PortableDirent("p", "DT_FIFO")>>)
  @@ (<<"r", "d">> :> <<PortableDirent(".", "DT_DIR"), PortableDirent("..", "DT_DIR"),
                        PortableDirent("g", "DT_REG"), PortableDirent("e", "DT_DIR")>>)
  @@ (<<"r", "d", "e">> :> <<PortableDirent(".", "DT_DIR"), PortableDirent("..", "DT_DIR")>>)
  @@ (<<"r", "s">> :> <<PortableDirent("..", "DT_DIR"), PortableDirent("g", "DT_REG"),
                        PortableDirent(".", "DT_DIR")>>)

SubDirectories == {<<"r", "d">>, <<"r", "d", "e">>, <<"r", "s">>}

\* The directories Recurse is started at.
WalkRoots == {<<"r">>, <<"r", "d">>}

\* The ignored files handed to the constructor.
IgnoredFiles == {{}, {"s"}, {"g"}}

\* What the walk meets: the directories opendir fails on, those closedir
\* fails on, and what the delegate answers to foundDirectory.
Environments ==
  [unopenable : {{}, {<<"r", "d">>}, {<<"r">>}},
   closeFails : {{}, {<<"r", "d">>}},
   answer : {[d \in SubDirectories |-> TRUE], [d \in SubDirectories |-> FALSE],
             [d \in SubDirectories |-> d # <<"r", "s">>]}]

\* The constructor with Init(): "." and ".." are always ignored; no callback
\* is set.
RecursionEngine(recurse, ignoredFiles) ==
  [callbacks |-> {}, recurse_ |-> recurse,
   ignored_files_ |-> ignoredFiles \cup {".", ".."}]

\* A call of Notify for one of the callbacks.
Notify(eng, callback, parent_path, entry_name) ==
  [callback |-> callback, parent_path |-> parent_path, entry_name |-> entry_name,
   delivered |-> callback \in eng.callbacks]

\* What Notify returns for foundDirectory: true when the callback is unset.
NotifyFoundDirectory(eng, env, parent_path, entry_name) ==
  IF "foundDirectory" \notin eng.callbacks THEN TRUE
  ELSE env.answer[Append(parent_path, entry_name)]

RECURSIVE DoRecursion(_, _, _, _)

\* The switch on d_type with foundDirectoryAfterRecursion only for the
\* directories that were recursed into.
FoundEntry_AfterIfRecursed(eng, env, path, dit) ==
  CASE dit.d_type = "DT_DIR" ->
         <<Notify(eng, "foundDirectory", path, dit.d_name)>>
         \o (IF NotifyFoundDirectory(eng, env, path, dit.d_name) /\ eng.recurse_
             THEN DoRecursion(eng, env, path, dit.d_name)
                    \o <<Notify(eng, "foundDirectoryAfterRecursion", path, dit.d_name)>>
             ELSE <<>>)
    [] dit.d_type = "DT_REG" -> <<Notify(eng, "foundRegularFile", path, dit.d_name)>>
    [] dit.d_type = "DT_LNK" -> <<Notify(eng, "foundSymlink", path, dit.d_name)>>
    [] OTHER -> <<>>

\* The switch on d_type of one entry that is not ignored.
FoundEntry(eng, env, path, dit) ==
  CASE dit.d_type = "DT_DIR" ->
         <<Notify(eng, "foundDirectory", path, dit.d_name)>>
         \o (IF NotifyFoundDirectory(eng, env, path, dit.d_name) /\ eng.recurse_
             THEN DoRecursion(eng, env, path, dit.d_name)
             ELSE <<>>)
         \o <<Notify(eng, "foundDirectoryAfterRecursion", path, dit.d_name)>>
    [] dit.d_type = "DT_REG" -> <<Notify(eng, "foundRegularFile", path, dit.d_name)>>
    [] dit.d_type = "DT_LNK" -> <<Notify(eng, "foundSymlink", path, dit.d_name)>>
    [] OTHER -> <<>>

\* The while loop over the entries portableReaddir returns.
RECURSIVE ReadDirectory(_, _, _, _)
ReadDirectory(eng, env, path, dirents) ==
  IF dirents = <<>> THEN <<>>
  ELSE LET dit == Head(dirents)
       IN  (IF dit.d_name \in eng.ignored_files_ THEN <<>>
            ELSE FoundEntry(eng, env, path, dit))
           \o ReadDirectory(eng, env, path, Tail(dirents))

DoRecursion(eng, env, parent_path, dir_name) ==
  LET path == Append(parent_path, dir_name)
  IN  IF path \notin DOMAIN Tree \/ path \in env.unopenable THEN <<>>
      ELSE <<Notify(eng, "enteringDirectory", parent_path, dir_name)>>
           \o ReadDirectory(eng, env, path, Tree[path])
           \o (IF path \in env.closeFails THEN <<>>
               ELSE <<Notify(eng, "leavingDirectory", parent_path, dir_name)>>)

\* A RecursionEngine is created.
NewRecursionEngine(recurse, ignoredFiles) ==
  /\ engine = NoEngine
  /\ engine' = RecursionEngine(recurse, ignoredFiles)
  /\ UNCHANGED <<walk, writerVars, hardlinkVars, lruVars, symlinkVars, marshalVars, dbVars>>

\* The owner of the engine sets one of its callbacks.
SetCallback(callback) ==
  /\ engine # NoEngine
  /\ walk = NoWalk
  /\ engine' = [engine EXCEPT !.callbacks = @ \cup {callback}]
  /\ UNCHANGED <<walk, writerVars, hardlinkVars, lruVars, symlinkVars, marshalVars, dbVars>>

\* Recurse(dir_path): one of the callbacks the assertion names is set; the
\* path is cut into parent and name and DoRecursion runs.
Recurse(dir_path, env) ==
  /\ engine # NoEngine
  /\ engine.callbacks \cap {"enteringDirectory", "leavingDirectory", "foundRegularFile",
                            "foundDirectory", "foundSymlink"} # {}
  /\ walk' = [dir_path |-> dir_path, env |-> env,
              trace |-> DoRecursion(engine, env, GetParentPath(dir_path),
                                    GetFileName(dir_path))]
  /\ UNCHANGED <<engine, writerVars, hardlinkVars, lruVars, symlinkVars, marshalVars, dbVars>>

NextWalk ==
  \/ \E recurse \in BOOLEAN, ignoredFiles \in IgnoredFiles :
       NewRecursionEngine(recurse, ignoredFiles)
  \/ \E callback \in Callbacks : SetCallback(callback)
  \/ \E dir_path \in WalkRoots, env \in Environments : Recurse(dir_path, env)

InitWalk == Init /\ catalogs = FlatRepository

SpecWalk == InitWalk /\ [][NextWalk]_vars

\* The directory a call of Notify is about.
NotifiedPath(call_) == Append(call_.parent_path, call_.entry_name)

\* The position in the trace of the first foundDirectoryAfterRecursion for
\* directory d after position i, or 0 when there is none.
AfterRecursion(trace, i, d) ==
  LET J == {j \in (i + 1)..Len(trace) :
              /\ trace[j].callback = "foundDirectoryAfterRecursion"
              /\ NotifiedPath(trace[j]) = d}
  IN  IF J = {} THEN 0 ELSE CHOOSE j \in J : \A k \in J : j <= k

\* C36: in a walk started by Recurse, every subdirectory found that is not
\* ignored gets foundDirectory first and foundDirectoryAfterRecursion last,
\* whether or not it was recursed into; between the two lie, exactly when
\* foundDirectory returned true (or is unset), recursion is enabled and the
\* directory could be opened, enteringDirectory for the directory, then only
\* callbacks for entries below it, then leavingDirectory (which is left out
\* when closedir fails).  An ignored name, "." and ".." among them, is the
\* subject of no callback and of no recursion.
C36_CallbackOrder ==
  walk # NoWalk =>
    LET trace == walk.trace
        env == walk.env
    IN  /\ \A i \in 1..Len(trace) :
             trace[i].callback = "foundDirectory" =>
               LET d == NotifiedPath(trace[i])
                   j == AfterRecursion(trace, i, d)
                   recursed == /\ "foundDirectory" \in engine.callbacks => env.answer[d]
                               /\ engine.recurse_
                               /\ d \in DOMAIN Tree
                               /\ d \notin env.unopenable
                   entering == Notify(engine, "enteringDirectory",
                                      trace[i].parent_path, trace[i].entry_name)
                   leaving == Notify(engine, "leavingDirectory",
                                     trace[i].parent_path, trace[i].entry_name)
               IN  /\ j > i
                   /\ recursed <=> j > i + 1
                   /\ recursed => trace[i + 1] = entering
                   /\ (recursed /\ d \notin env.closeFails) =>
                        (j > i + 2 /\ trace[j - 1] = leaving)
                   /\ \A k \in (i + 2)..(j - 1) :
                        \/ IsPrefix(d, trace[k].parent_path)
                        \/ k = j - 1 /\ trace[k] = leaving /\ d \notin env.closeFails
        /\ \A k \in 1..Len(trace) :
             /\ trace[k].callback = "enteringDirectory" =>
                  \A n \in 1..Len(Tree[NotifiedPath(trace[k])]) :
                    LET dit == Tree[NotifiedPath(trace[k])][n]
                    IN  (dit.d_type = "DT_DIR" /\ dit.d_name \notin engine.ignored_files_) =>
                          \E i \in (k + 1)..Len(trace) :
                            trace[i] = Notify(engine, "foundDirectory",
                                              NotifiedPath(trace[k]), dit.d_name)
             /\ trace[k].entry_name \notin engine.ignored_files_
             /\ \A n \in 1..Len(trace[k].parent_path) :
                  n > Len(GetParentPath(walk.dir_path)) + 1 =>
                    trace[k].parent_path[n] \notin engine.ignored_files_

\* A walk with every callback set in which the delegate lets the engine
\* recurse into r/d and not into r/s, and in which closedir succeeds.
C36_Witness ==
  /\ walk # NoWalk
  /\ walk.dir_path = <<"r">>
  /\ engine.callbacks = Callbacks
  /\ engine.recurse_
  /\ engine.ignored_files_ = {".", "..", "g"}
  /\ walk.env.unopenable = {}
  /\ walk.env.closeFails = {}
  /\ \E i, j \in 1..Len(walk.trace) :
       /\ walk.trace[i] = Notify(engine, "foundDirectory", <<"r">>, "d")
       /\ walk.trace[i + 1] = Notify(engine, "enteringDirectory", <<"r">>, "d")
       /\ walk.trace[j] = Notify(engine, "foundDirectory", <<"r">>, "s")
       /\ walk.trace[j + 1] = Notify(engine, "foundDirectoryAfterRecursion", <<"r">>, "s")

============================================================================
